---- MODULE Spec2Model ----
(***************************************************************************)
(* A model of the grade-aggregation engine of howamidoing                  *)
(* (src/src/howamidoing/objects.py, utils.py): Assignment, AssignmentGroup,*)
(* Course and Profile, their clobber engine and their serialization.       *)
(*                                                                         *)
(* Python values are modelled as follows.                                  *)
(*   float      an exact rational <<n, d>>, d > 0, in lowest terms         *)
(*   None       the empty tuple <<>>                                       *)
(*   ID         a positive integer                                         *)
(*   dict       a function (a record where the keys are fixed)             *)
(*   a call     a record [err |-> "none" or the exception's class, ...]    *)
(*              that carries the state the call leaves behind              *)
(***************************************************************************)
EXTENDS Integers, Sequences, FiniteSets, TLC

VARIABLES asg, hist, course, last, orig, profile, plast, group, glast,
          clock, heap, minted, loop

vars == <<asg, hist, course, last, orig, profile, plast, group, glast,
          clock, heap, minted, loop>>

asgVars     == <<asg, hist>>
courseVars  == <<course, last, orig>>
profileVars == <<profile, plast>>
groupVars   == <<group, glast>>
idVars      == <<clock, heap, minted>>
loopVars    == <<loop>>

None == <<>>

\* no call of Course.apply_clobber is in its loop
Idle == [pc |-> "idle"]

(***************************************************************************)
(* Bounds of the model.                                                    *)
(***************************************************************************)
\* the longest run of consecutive clobbers that is counted
MaxRun == 3
\* the ids a course's components are drawn from
MaxId == 3
\* the longest list of targets handed to Course.apply_clobber
MaxTargets == 2
\* the courses of a profile
MaxCourses == 2
\* the ids the components of a course of a profile are given
MaxKey == 2
\* the assignments of a group
MaxAssignments == 1
\* the calls made on a profile and what it holds
MaxCalls == 7
\* the assignments a stand-alone group is given
MaxGroup == 3
\* the largest num_drops a stand-alone group is made with
MaxDrops == 2
\* the latest reading of the clock, in microseconds after the first
MaxClock == 3
\* the addresses objects are allocated at
MaxAddress == 3
\* the ids that generate_id is asked for
MaxMinted == 3
\* the rounds of the loop of Course.apply_clobber that are counted
MaxRounds == 4

(***************************************************************************)
(* Exact arithmetic standing for Python's float arithmetic.                *)
(***************************************************************************)
Abs(x) == IF x < 0 THEN -x ELSE x

RECURSIVE GCD(_, _)
GCD(a, b) == IF b = 0 THEN a ELSE GCD(b, a % b)

\* the rational n / d (d # 0) in lowest terms with a positive denominator
Rat(n, d) ==
    LET g == GCD(Abs(n), Abs(d))
        s == IF d < 0 THEN -1 ELSE 1
    IN  <<(s * n) \div g, (s * d) \div g>>

R(n) == <<n, 1>>

RAdd(x, y) == Rat(x[1] * y[2] + y[1] * x[2], x[2] * y[2])
RSub(x, y) == Rat(x[1] * y[2] - y[1] * x[2], x[2] * y[2])
RMul(x, y) == Rat(x[1] * y[1], x[2] * y[2])
RDiv(x, y) == Rat(x[1] * y[2], x[2] * y[1])
RLt(x, y)  == x[1] * y[2] < y[1] * x[2]
RLe(x, y)  == x[1] * y[2] <= y[1] * x[2]

RAbs(x) == <<Abs(x[1]), x[2]>>

\* Python's truth value of an optional number: None and 0 are false
Truthy(x) == x # None /\ x[1] # 0

Min(a, b) == IF a < b THEN a ELSE b

(***************************************************************************)
(* Assignment                                                              *)
(***************************************************************************)
Raise(e, obj) == [err |-> e, obj |-> obj]
Ok(obj)       == [err |-> "none", obj |-> obj]

\* Assignment.__init__ without override_json; id is override_id or the
\* generated id, class the Python class being constructed
AssignmentInit(score, name, upper, mu, sigma, curved, id, class) ==
    IF curved /\ (mu = None \/ sigma = None)
    THEN Raise("ValueError", None)
    ELSE LET mu2    == IF Truthy(mu) THEN mu ELSE None
             sigma2 == IF Truthy(sigma) THEN sigma ELSE None
         IN  IF curved /\ (mu2 = None \/ sigma2 = None)
             THEN Raise("TypeError", None)   \* score - None, or / None
             ELSE Ok([ id             |-> id,
                       name           |-> name,
                       upper          |-> upper,
                       curved         |-> curved,
                       mu             |-> mu2,
                       sigma          |-> sigma2,
                       clobbered      |-> FALSE,
                       before_clobber |-> None,
                       score          |-> score,
                       zscore         |-> IF curved
                                          THEN RDiv(RSub(score, mu2), sigma2)
                                          ELSE R(0),
                       weight         |-> None,
                       class          |-> class ])

\* a revert that restores the score and forgets the z-score
AssignmentRevertClobberScoreOnly(a) ==
    IF ~a.clobbered THEN a
    ELSE [a EXCEPT !.clobbered = FALSE,
                   !.score = a.before_clobber[1].score,
                   !.before_clobber = None]

\* Assignment.revert_clobber
AssignmentRevertClobber(a) ==
    IF ~a.clobbered THEN a
    ELSE [a EXCEPT !.clobbered = FALSE,
                   !.score = a.before_clobber[1].score,
                   !.zscore = a.before_clobber[1].zscore,
                   !.before_clobber = None]

\* the snapshot Assignment.apply_clobber takes
Snapshot(a) == <<[score |-> a.score, zscore |-> a.zscore]>>

\* a clobber that snapshots the clobbered state instead of reverting first
AssignmentApplyClobberStacking(a, zscore) ==
    LET s == [a EXCEPT !.clobbered = TRUE,
                       !.before_clobber = Snapshot(a),
                       !.zscore = zscore]
    IN  IF s.sigma = None \/ s.mu = None
        THEN Raise("TypeError", s)
        ELSE Ok([s EXCEPT !.score = RAdd(RMul(zscore, s.sigma), s.mu)])

\* Assignment.apply_clobber
AssignmentApplyClobber(a, zscore) ==
    LET r == IF a.clobbered THEN AssignmentRevertClobber(a) ELSE a
        s == [r EXCEPT !.clobbered = TRUE,
                       !.before_clobber = Snapshot(r),
                       !.zscore = zscore]
    IN  IF s.sigma = None \/ s.mu = None
        THEN Raise("TypeError", s)            \* zscore * None, or + None
        ELSE Ok([s EXCEPT !.score = RAdd(RMul(zscore, s.sigma), s.mu)])

(***************************************************************************)
(* Course.components is the dict {id : info}: a function from the ids that *)
(* are keys to the info records.  The order in which Python iterates over  *)
(* the dict (the order of insertion) is not part of this value: an         *)
(* operator that iterates takes the order as an argument.                  *)
(***************************************************************************)
Keys(d) == DOMAIN d

EmptyDict == [k \in {} |-> None]

\* d[id] = e
Put(d, id, e) == [k \in DOMAIN d \cup {id} |-> IF k = id THEN e ELSE d[k]]

\* del d[id]
Del(d, id) == [k \in DOMAIN d \ {id} |-> d[k]]

\* str(n) for the numbers that occur in default names
Str(n) == ToString(n)

\* the first index of a least element: the argmin of Course.apply_clobber,
\* the head of a stable sort
ArgMin(zs) ==
    CHOOSE i \in DOMAIN zs :
        /\ \A j \in DOMAIN zs : RLe(zs[i], zs[j])
        /\ \A j \in 1..(i - 1) : ~RLe(zs[j], zs[i])

\* the list without its i-th element
RemoveAt(s, i) == SubSeq(s, 1, i - 1) \o SubSeq(s, i + 1, Len(s))

(***************************************************************************)
(* CurvedSingleAssignment, UncurvedSingleAssignment                        *)
(***************************************************************************)
\* the weight check with 0 let through
InvalidWeightZeroPasses(weight) == RLt(R(1), weight) \/ RLt(weight, R(0))

\* the weight check the four component constructors share
InvalidWeight(weight) == RLt(R(1), weight) \/ RLe(weight, R(0))

\* CurvedSingleAssignment.__init__ without override_json
CurvedSingleAssignmentInit(weight, score, name, upper, mu, sigma, id) ==
    IF InvalidWeight(weight) THEN Raise("ValueError", None)
    ELSE LET r == AssignmentInit(score, name, upper, mu, sigma, TRUE, id,
                                 "CurvedSingleAssignment")
         IN  IF r.err # "none" THEN r
             ELSE Ok([r.obj EXCEPT !.weight = weight])

\* UncurvedSingleAssignment.__init__ without override_json
UncurvedSingleAssignmentInit(weight, score, name, upper, id) ==
    IF InvalidWeight(weight) THEN Raise("ValueError", None)
    ELSE LET r == AssignmentInit(score, name, upper, None, None, FALSE, id,
                                 "UncurvedSingleAssignment")
         IN  IF r.err # "none" THEN r
             ELSE Ok([r.obj EXCEPT !.weight = weight])

(***************************************************************************)
(* AssignmentGroup and its two subclasses                                  *)
(***************************************************************************)
\* AssignmentGroup.__init__ without override_json, followed by the
\* subclass's assignment to self.curved
AssignmentGroupInit(weight, name, corr, num_drops, id, curved, class) ==
    IF InvalidWeight(weight) THEN Raise("ValueError", None)
    ELSE Ok([ id          |-> id,
              weight      |-> weight,
              name        |-> name,
              corr        |-> corr,
              curved      |-> curved,
              num_drops   |-> num_drops,
              assignments |-> <<>>,
              class       |-> class ])

\* CurvedAssignmentGroup.__init__
CurvedAssignmentGroupInit(weight, name, corr, num_drops, id) ==
    AssignmentGroupInit(weight, name, corr, num_drops, id, TRUE,
                        "CurvedAssignmentGroup")

\* UncurvedAssignmentGroup.__init__
UncurvedAssignmentGroupInit(weight, name, corr, num_drops, id) ==
    AssignmentGroupInit(weight, name, corr, num_drops, id, FALSE,
                        "UncurvedAssignmentGroup")

IsGroup(obj) == obj.class \in {"CurvedAssignmentGroup", "UncurvedAssignmentGroup"}

\* self.assignments[id] = new_assignment on the dict kept as the sequence of
\* its values in the order of insertion: a key that is there keeps its place
PutAssignment(assignments, a) ==
    IF \E i \in DOMAIN assignments : assignments[i].id = a.id
    THEN [i \in DOMAIN assignments |->
            IF assignments[i].id = a.id THEN a ELSE assignments[i]]
    ELSE Append(assignments, a)

\* CurvedAssignmentGroup.add_assignment
CurvedGroupAddAssignment(g, score, name, upper, mu, sigma, id) ==
    LET nm == IF name = None
              THEN <<"Assignment " \o Str(Len(g.assignments) + 1)>> ELSE name
        r == AssignmentInit(score, nm, upper, mu, sigma, TRUE, id, "Assignment")
    IN  IF r.err # "none" THEN Raise(r.err, g)
        ELSE Ok([g EXCEPT !.assignments = PutAssignment(@, r.obj)])

\* UncurvedAssignmentGroup.add_assignment
UncurvedGroupAddAssignment(g, score, name, upper, id) ==
    LET nm == IF name = None
              THEN <<"Assignment " \o Str(Len(g.assignments) + 1)>> ELSE name
        r == AssignmentInit(score, nm, upper, None, None, FALSE, id, "Assignment")
    IN  IF r.err # "none" THEN Raise(r.err, g)
        ELSE Ok([g EXCEPT !.assignments = PutAssignment(@, r.obj)])

(***************************************************************************)
(* Summary (utils.py).  The display strings "percentage", "mu" and "sigma" *)
(* are left out.  A standard deviation of a sum (correlated_sigma_sum, a   *)
(* square root), the z-score over it and the letter grade of a curved      *)
(* course (a quantile of a truncated normal) are real numbers the model    *)
(* does not compute: Real stands for such a value, which is not zero.      *)
(***************************************************************************)
Real == <<"real">>

NotZero(x) == x # None /\ (x = Real \/ x[1] # 0)

\* round(x, 2)
Round2(x) ==
    LET n == x[1] * 100
        q == n \div x[2]
        twice == 2 * (n % x[2])
    IN  IF twice < x[2] THEN Rat(q, 100)
        ELSE IF twice > x[2] THEN Rat(q + 1, 100)
        ELSE IF q % 2 = 0 THEN Rat(q, 100) ELSE Rat(q + 1, 100)

SRaise(e, msg) == [err |-> e, msg |-> msg, summary |-> None]

\* Summary.__init__
SummaryInit(score, upper, zscore, mu, sigma) ==
    IF upper[1] = 0 THEN SRaise("ZeroDivisionError", "")
    ELSE [err |-> "none", msg |-> "", summary |->
            [_percentage  |-> RDiv(score, upper),
             zscore       |-> IF ~NotZero(zscore) THEN None
                              ELSE IF zscore = Real THEN Real ELSE Round2(zscore),
             _mu          |-> IF ~NotZero(mu) THEN None ELSE RDiv(mu, upper),
             _sigma       |-> IF ~NotZero(sigma) THEN None
                              ELSE IF sigma = Real THEN Real ELSE RDiv(sigma, upper),
             drop_applied |-> None,
             is_final     |-> None,
             class_curved |-> None,
             grade        |-> None]]

\* Assignment.get_summary
AssignmentGetSummary(a) == SummaryInit(a.score, a.upper, a.zscore, a.mu, a.sigma)

\* Assignment.get_primary_score
PrimaryScore(a) == IF a.curved THEN a.zscore ELSE a.score

\* list.sort(key=get_primary_score): the least first, the earlier first
\* among equals
RECURSIVE SortByPrimaryScore(_)
SortByPrimaryScore(as) ==
    IF as = <<>> THEN <<>>
    ELSE LET i == ArgMin([j \in DOMAIN as |-> PrimaryScore(as[j])])
         IN  <<as[i]>> \o SortByPrimaryScore(RemoveAt(as, i))

\* a drop that leaves out the highest instead of the lowest
DropHighest(sorted, num_drops) ==
    IF Len(sorted) > num_drops
    THEN [assignments |-> SubSeq(sorted, 1, Len(sorted) - num_drops),
          drop_applied |-> TRUE]
    ELSE [assignments |-> sorted, drop_applied |-> FALSE]

\* the end of AssignmentGroup._apply_drop on the sorted assignments
DropLowest(sorted, num_drops) ==
    IF Len(sorted) > num_drops
    THEN [assignments |->
             SubSeq(sorted,
                    IF num_drops >= 0 THEN num_drops + 1
                    ELSE IF Len(sorted) + num_drops >= 0
                         THEN Len(sorted) + num_drops + 1 ELSE 1,
                    Len(sorted)),
          drop_applied |-> TRUE]
    ELSE [assignments |-> sorted, drop_applied |-> FALSE]

\* AssignmentGroup._apply_drop
ApplyDrop(g) == DropLowest(SortByPrimaryScore(g.assignments), g.num_drops)

\* the loops of _calculate_summaries and _calculate_curved_info over the
\* summaries ss from the i-th on: score and mu are sums of the fractions
\* times the weights ws, curved says whether mu is summed too
RECURSIVE SumSummaries(_, _, _, _, _, _)
SumSummaries(ss, ws, curved, i, score, mu) ==
    IF i > Len(ss) THEN [err |-> "none", msg |-> "", score |-> score, mu |-> mu]
    ELSE IF ss[i].err # "none"
         THEN [err |-> ss[i].err, msg |-> ss[i].msg, score |-> score, mu |-> mu]
    ELSE IF curved /\ (ss[i].summary._mu = None \/ ss[i].summary._sigma = None)
         THEN [err |-> "TypeError", msg |-> "", score |-> score, mu |-> mu]
    ELSE SumSummaries(ss, ws, curved, i + 1,
            RAdd(score, RMul(ss[i].summary._percentage, ws[i])),
            IF curved THEN RAdd(mu, RMul(ss[i].summary._mu, ws[i])) ELSE mu)

\* (score - mu) / sigma for a sigma that is Real
OverReal(num) == IF num[1] = 0 THEN R(0) ELSE Real

\* the Summary that _calculate_summaries makes of the sums t
GroupSummary(t, curved, drop_applied) ==
    IF t.err # "none" THEN SRaise(t.err, t.msg)
    ELSE [(IF curved
           THEN SummaryInit(t.score, R(1), OverReal(RSub(t.score, t.mu)), t.mu, Real)
           ELSE SummaryInit(t.score, R(1), None, None, None))
          EXCEPT !.summary.drop_applied = drop_applied]

\* _calculate_summaries of the subclass on what _apply_drop returned
CalculateSummaries(d, curved) ==
    GroupSummary(
        SumSummaries([i \in DOMAIN d.assignments |-> AssignmentGetSummary(d.assignments[i])],
                     [i \in DOMAIN d.assignments |-> R(1)], curved, 1, R(0), R(0)),
        curved, d.drop_applied)

\* AssignmentGroup.get_summary
GroupGetSummary(g) ==
    IF Len(g.assignments) = 0
    THEN SRaise("AssertionError", "No assignments in this group.")
    ELSE CalculateSummaries(ApplyDrop(g), g.curved)

\* component.get_summary() of a component of a course
ComponentGetSummary(o) ==
    IF IsGroup(o) THEN GroupGetSummary(o) ELSE AssignmentGetSummary(o)

(***************************************************************************)
(* Course                                                                  *)
(***************************************************************************)
\* Course.uncurved_boundaries, in the order of the dict
Letters == <<"A+", "A", "A-", "B+", "B", "B-", "C+", "C", "C-", "D+", "D", "D-", "F">>

UncurvedBoundaries ==
    <<Rat(97, 100), Rat(93, 100), Rat(90, 100), Rat(87, 100), Rat(83, 100),
      Rat(80, 100), Rat(77, 100), Rat(73, 100), Rat(70, 100), Rat(67, 100),
      Rat(63, 100), Rat(60, 100), R(0)>>

\* Course.curved_boundaries, in the order of the dict
CurvedBoundaries ==
    <<Rat(95, 100), Rat(77, 100), Rat(65, 100), Rat(45, 100), Rat(30, 100),
      Rat(20, 100), Rat(15, 100), Rat(10, 100), Rat(7, 100), Rat(5, 100),
      Rat(4, 100), Rat(3, 100), R(0)>>

\* what a method of Course leaves behind: the exception's class (or "none"),
\* its message where the class does not tell, and the course after the call
CRaise(e, msg, c) == [err |-> e, msg |-> msg, course |-> c]
COk(c)            == [err |-> "none", msg |-> "", course |-> c]

\* Course.__init__ without override_json
CourseInit(corr, name, id) ==
    IF RLt(corr, R(0)) \/ RLt(R(1), corr) THEN CRaise("ValueError", "", None)
    ELSE COk([ id                  |-> id,
               corr                |-> corr,
               name                |-> IF name # None THEN name ELSE <<"My Course">>,
               status              |-> "Other",
               components          |-> EmptyDict,
               clobber_info        |-> None,
               uncurved_boundaries |-> UncurvedBoundaries,
               curved_boundaries   |-> CurvedBoundaries ])

\* the entry of Course.components the add_* methods build
Info(curved, weight, grouped, obj) ==
    [curved |-> curved, weight |-> weight, grouped |-> grouped, object |-> obj]

\* self.components[id] = info, when the constructor did not raise
Register(c, r, curved, weight, grouped) ==
    IF r.err # "none" THEN CRaise(r.err, "", c)
    ELSE COk([c EXCEPT !.components =
                Put(@, r.obj.id, Info(curved, weight, grouped, r.obj))])

\* prefix + str(len(self.components) + 1)
DefaultName(prefix, c) == <<prefix \o Str(Cardinality(Keys(c.components)) + 1)>>

\* Course.add_curved_single
AddCurvedSingle(c, weight, score, name, upper, mu, sigma, id) ==
    LET nm == IF name = None THEN DefaultName("Assignment ", c) ELSE name
    IN  Register(c, CurvedSingleAssignmentInit(weight, score, nm, upper, mu, sigma, id),
                 TRUE, weight, FALSE)

\* Course.add_uncurved_single
AddUncurvedSingle(c, weight, score, name, upper, id) ==
    LET nm == IF name = None THEN DefaultName("Assignment ", c) ELSE name
    IN  Register(c, UncurvedSingleAssignmentInit(weight, score, nm, upper, id),
                 FALSE, weight, FALSE)

\* Course.add_curved_group
AddCurvedGroup(c, weight, name, corr, num_drops, id) ==
    LET cr == IF corr = None THEN c.corr ELSE corr
        nm == IF name = None THEN DefaultName("Grouped Assignments ", c) ELSE name
    IN  Register(c, CurvedAssignmentGroupInit(weight, nm, cr, num_drops, id),
                 TRUE, weight, TRUE)

\* Course.add_uncurved_group
AddUncurvedGroup(c, weight, name, corr, num_drops, id) ==
    LET nm == IF name = None THEN DefaultName("Grouped Assignments ", c) ELSE name
    IN  Register(c, UncurvedAssignmentGroupInit(weight, nm, corr, num_drops, id),
                 FALSE, weight, TRUE)

\* the loop of Course.revert_clobber over clobber_info["targets"], from the
\* i-th target on: a target that is no key raises KeyError, a target that is
\* a group has no revert_clobber and raises AttributeError; what was
\* reverted before stays reverted
RECURSIVE RevertTargets(_, _, _)
RevertTargets(c, targets, i) ==
    IF i > Len(targets) THEN COk(c)
    ELSE IF targets[i] \notin Keys(c.components) THEN CRaise("KeyError", "", c)
    ELSE LET k == targets[i]
             o == c.components[k].object
         IN  IF IsGroup(o) THEN CRaise("AttributeError", "", c)
             ELSE RevertTargets(
                    [c EXCEPT !.components[k].object = AssignmentRevertClobber(o)],
                    targets, i + 1)

\* the end of Course.revert_clobber: clobber_info is cleared when the loop
\* raised nothing
ClearClobberInfo(r) ==
    IF r.err # "none" THEN r ELSE COk([r.course EXCEPT !.clobber_info = None])

\* Course.revert_clobber
CourseRevertClobber(c) ==
    IF c.clobber_info # None
    THEN ClearClobberInfo(RevertTargets(c, c.clobber_info[1].targets, 1))
    ELSE COk(c)

\* the while loop of Course.apply_clobber: targets are the ids of the objects
\* still in the list, z_targets the z-scores read before the loop
RECURSIVE ClobberLoop(_, _, _, _, _, _)
RECURSIVE ClobberAt(_, _, _, _, _, _, _)
ClobberLoop(c, targets, z_targets, z_source, capacity, clobbered_components) ==
    IF capacity = 0 \/ (\A i \in DOMAIN z_targets : RLe(z_source, z_targets[i]))
    THEN [course |-> c, clobbered |-> clobbered_components]
    ELSE ClobberAt(c, targets, z_targets, z_source, capacity,
                   clobbered_components, ArgMin(z_targets))

\* one round of the loop: the target at min_index is clobbered
ClobberAt(c, targets, z_targets, z_source, capacity, clobbered_components, min_index) ==
    ClobberLoop([c EXCEPT !.components[targets[min_index]].object =
                    AssignmentApplyClobber(@, z_source).obj],
                RemoveAt(targets, min_index),
                RemoveAt(z_targets, min_index),
                z_source, capacity - 1,
                Append(clobbered_components, targets[min_index]))

\* the checks of Course.apply_clobber on one id: "" when it passes
CheckId(c, id, who) ==
    IF id \notin Keys(c.components) THEN who \o " not found"
    ELSE IF ~c.components[id].curved THEN who \o " not curved"
    ELSE IF c.components[id].grouped THEN who \o " grouped"
    ELSE ""

\* the message of the first target that fails its check: "" when all pass
CheckTargets(c, targets) ==
    IF \A i \in DOMAIN targets : CheckId(c, targets[i], "target") = "" THEN ""
    ELSE CheckId(c, targets[CHOOSE i \in DOMAIN targets :
                        /\ CheckId(c, targets[i], "target") # ""
                        /\ \A j \in 1..(i - 1) : CheckId(c, targets[j], "target") = ""],
                 "target")

\* an end of apply_clobber that records the first clobbered target only
RecordFirstTarget(l, source_id) ==
    COk([l.course EXCEPT !.clobber_info =
            <<[source |-> source_id,
               targets |-> IF l.clobbered = <<>> THEN <<>> ELSE <<l.clobbered[1]>>]>>])

\* the end of Course.apply_clobber: clobber_info records the source and the
\* targets the loop l clobbered
RecordClobber(l, source_id) ==
    COk([l.course EXCEPT !.clobber_info =
            <<[source |-> source_id, targets |-> l.clobbered]>>])

\* Course.apply_clobber from its checks on: c is the course after the revert
CheckAndClobber(c, source, targets, capacity) ==
    IF \E i \in DOMAIN targets : targets[i] = source
    THEN CRaise("ValueError", "source in targets", c)
    ELSE IF CheckId(c, source, "source") # ""
    THEN CRaise("ValueError", CheckId(c, source, "source"), c)
    ELSE IF CheckTargets(c, targets) # ""
    THEN CRaise("ValueError", CheckTargets(c, targets), c)
    ELSE RecordClobber(
            ClobberLoop(c, targets,
                        [i \in DOMAIN targets |-> c.components[targets[i]].object.zscore],
                        c.components[source].object.zscore,
                        IF capacity = -1 THEN Len(targets) ELSE capacity,
                        <<>>),
            c.components[source].object.id)

\* Course.apply_clobber after its revert of the active clobber returned r
AfterRevert(r, source, targets, capacity) ==
    IF r.err # "none" THEN r ELSE CheckAndClobber(r.course, source, targets, capacity)

\* Course.apply_clobber without the revert of the clobber that is active
CourseApplyClobberNoRevert(c, source, targets, capacity) ==
    CheckAndClobber(c, source, targets, capacity)

\* Course.apply_clobber
CourseApplyClobber(c, source, targets, capacity) ==
    AfterRevert(IF c.clobber_info # None THEN CourseRevertClobber(c) ELSE COk(c),
                source, targets, capacity)

\* the end of Course.remove_component, after its revert returned r
DeleteComponent(r, component_id) ==
    IF r.err # "none" THEN r
    ELSE COk([r.course EXCEPT !.components = Del(@, component_id)])

\* Course.remove_component
CourseRemoveComponent(c, component_id) ==
    DeleteComponent(CourseRevertClobber(c), component_id)

\* an isclose with the tolerance 1/2
IsCloseWithinHalf(a, b) == RLe(RAbs(RSub(a, b)), Rat(1, 2))

\* math.isclose(a, b): abs(a - b) <= 1e-09 * max(abs(a), abs(b))
IsClose(a, b) ==
    LET d == RAbs(RSub(a, b))
        m == IF RLt(RAbs(a), RAbs(b)) THEN RAbs(b) ELSE RAbs(a)
    IN  d[1] * m[2] <= (m[1] * d[2]) \div 1000000000

\* the loop of Course.get_summary with the test of the total before the
\* weight is added
RECURSIVE WeightLoopTestFirst(_, _, _, _)
WeightLoopTestFirst(c, order, i, total_weight) ==
    IF i > Len(order) THEN [err |-> "none", total_weight |-> total_weight]
    ELSE IF RLt(R(1), total_weight)
    THEN [err |-> "ValueError", total_weight |-> total_weight]
    ELSE WeightLoopTestFirst(c, order, i + 1,
                             RAdd(total_weight, c.components[order[i]].weight))

\* the loop of Course.get_summary over the components from the i-th of the
\* order on: the total of the weights, or the error once it exceeds one
RECURSIVE WeightLoop(_, _, _, _)
RECURSIVE AddWeight(_, _, _, _)
WeightLoop(c, order, i, total_weight) ==
    IF i > Len(order) THEN [err |-> "none", total_weight |-> total_weight]
    ELSE AddWeight(c, order, i, RAdd(total_weight, c.components[order[i]].weight))

\* one round of the loop: the total is tested once the weight is added
AddWeight(c, order, i, total_weight) ==
    IF RLt(R(1), total_weight) THEN [err |-> "ValueError", total_weight |-> total_weight]
    ELSE WeightLoop(c, order, i + 1, total_weight)

\* the objects of the components that are curved (or that are not), in order
ObjectsOf(c, order, curved) ==
    LET Is(id) == c.components[id].curved = curved
        ids == SelectSeq(order, Is)
    IN  [i \in DOMAIN ids |-> c.components[ids[i]].object]

\* Course._calculate_curved_info and _calculate_uncurved_info
CalculateInfo(objects, curved) ==
    SumSummaries([i \in DOMAIN objects |-> ComponentGetSummary(objects[i])],
                 [i \in DOMAIN objects |-> objects[i].weight], curved, 1, R(0), R(0))

\* the Summary that Course._calculate_summary makes of the two infos
CombineInfo(curved_info, uncurved_info, total_weight, has_curved) ==
    IF curved_info.err # "none" THEN SRaise(curved_info.err, curved_info.msg)
    ELSE IF uncurved_info.err # "none"
         THEN SRaise(uncurved_info.err, uncurved_info.msg)
    ELSE IF total_weight[1] = 0 THEN SRaise("ZeroDivisionError", "")
    ELSE IF has_curved
         THEN SummaryInit(RDiv(RAdd(curved_info.score, uncurved_info.score), total_weight),
                          R(1),
                          OverReal(RSub(curved_info.score, curved_info.mu)),
                          RDiv(RAdd(curved_info.mu, uncurved_info.score), total_weight),
                          Real)
    ELSE SummaryInit(RDiv(RAdd(curved_info.score, uncurved_info.score), total_weight),
                     R(1), None, None, None)

\* Course._calculate_summary
CourseCalculateSummary(curved, uncurved, total_weight) ==
    CombineInfo(CalculateInfo(curved, TRUE), CalculateInfo(uncurved, FALSE),
                total_weight, Len(curved) # 0)

\* a _get_grade whose comparison is > instead of >=
GetGradeStrict(c, summary) ==
    IF summary.class_curved THEN Real
    ELSE LET reached == {i \in DOMAIN c.uncurved_boundaries :
                            RLt(c.uncurved_boundaries[i], summary._percentage)}
         IN  IF reached = {} THEN <<Letters[Len(Letters)]>>
             ELSE <<Letters[CHOOSE i \in reached : \A j \in reached : i <= j]>>

\* Course._get_grade: the first letter whose boundary the score reaches, the
\* last letter when it reaches none
GetGrade(c, summary) ==
    IF summary.class_curved THEN Real
    ELSE LET reached == {i \in DOMAIN c.uncurved_boundaries :
                            RLe(c.uncurved_boundaries[i], summary._percentage)}
         IN  IF reached = {} THEN <<Letters[Len(Letters)]>>
             ELSE <<Letters[CHOOSE i \in reached : \A j \in reached : i <= j]>>

\* the end of Course.get_summary: the letter grade joins the summary
WithGrade(c, summary) ==
    [err |-> "none", msg |-> "", summary |-> [summary EXCEPT !.grade = GetGrade(c, summary)]]

\* Course.get_summary once _calculate_summary returned r
Finish(c, r, class_curved, is_final) ==
    IF r.err # "none" THEN r
    ELSE WithGrade(c, [r.summary EXCEPT !.class_curved = class_curved,
                                        !.is_final = is_final])

\* Course.get_summary once its loop over the components returned w
AfterWeightLoop(c, w, curved, uncurved) ==
    IF w.err # "none" THEN SRaise("ValueError", "Total weight exceeds one.")
    ELSE Finish(c, CourseCalculateSummary(curved, uncurved, w.total_weight),
                Len(curved) # 0, IsClose(w.total_weight, R(1)))

\* Course.get_summary, the dict being iterated in the given order of its keys
CourseGetSummary(c, order) ==
    IF Len(order) = 0 THEN SRaise("AssertionError", "No components in this course.")
    ELSE AfterWeightLoop(c, WeightLoop(c, order, 1, R(0)),
                         ObjectsOf(c, order, TRUE), ObjectsOf(c, order, FALSE))

(***************************************************************************)
(* A stand-alone Assignment: construction, then clobbers and reverts.      *)
(***************************************************************************)
ScoreInputs == {R(50), R(-20), R(75)}
MuInputs    == {None, R(0), R(50)}
SigmaInputs == {None, R(0), R(10)}
ZInputs     == {R(1), R(2), Rat(-1, 2)}

AsgStart ==
    [op |-> "start", arg |-> None, err |-> "none", prevop |-> "start",
     prev |-> None, origin |-> None, run |-> 0, cerr |-> "none"]

\* a = Assignment(score, mu=mu, sigma=sigma, curved=curved); a constructor
\* that raises leaves the assignment made before as it is, and hist.cerr
\* holds what the last constructor call raised
DoAssignment(score, mu, sigma, curved) ==
    LET r == AssignmentInit(score, None, R(100), mu, sigma, curved, 1, "Assignment")
    IN  /\ asg' = IF r.err = "none" THEN <<r.obj>> ELSE asg
        /\ hist' = IF r.err = "none"
                   THEN [AsgStart EXCEPT !.op = "construct"]
                   ELSE [hist EXCEPT !.cerr = r.err]
        /\ UNCHANGED <<courseVars, profileVars, groupVars, idVars, loopVars>>

\* a.apply_clobber(z)
DoAssignmentApplyClobber(z) ==
    /\ asg # None
    /\ LET r == AssignmentApplyClobber(asg[1], z)
       IN  /\ asg' = <<r.obj>>
           /\ hist' = [op |-> "apply_clobber", arg |-> z, err |-> r.err,
                       prevop |-> hist.op, prev |-> asg,
                       origin |-> IF hist.op = "apply_clobber" THEN hist.origin ELSE asg,
                       run |-> IF hist.op = "apply_clobber"
                               THEN Min(hist.run + 1, MaxRun) ELSE 1,
                       cerr |-> hist.cerr]
    /\ UNCHANGED <<courseVars, profileVars, groupVars, idVars, loopVars>>

\* a.revert_clobber()
DoAssignmentRevertClobber ==
    /\ asg # None
    /\ asg' = <<AssignmentRevertClobber(asg[1])>>
    /\ hist' = [op |-> "revert_clobber", arg |-> None, err |-> "none",
                prevop |-> hist.op, prev |-> asg,
                origin |-> hist.origin, run |-> hist.run, cerr |-> hist.cerr]
    /\ UNCHANGED <<courseVars, profileVars, groupVars, idVars, loopVars>>

InitAssignment ==
    /\ asg = None
    /\ hist = AsgStart
    /\ course = None
    /\ last = None
    /\ orig = EmptyDict
    /\ profile = EmptyDict
    /\ plast = [op |-> "Profile", err |-> "none", calls |-> 0]
    /\ group = None
    /\ glast = [op |-> "start", err |-> "none"]
    /\ clock = 0
    /\ heap = {}
    /\ minted = <<>>
    /\ loop = Idle

NextAssignment ==
    \/ \E score \in ScoreInputs, mu \in MuInputs, sigma \in SigmaInputs,
          curved \in BOOLEAN : DoAssignment(score, mu, sigma, curved)
    \/ \E z \in ZInputs : DoAssignmentApplyClobber(z)
    \/ DoAssignmentRevertClobber

SpecAssignment == InitAssignment /\ [][NextAssignment]_vars

\* the assignment the current run of clobbers started from is a curved one
OriginCurved == hist.origin # None /\ hist.origin[1].curved

\* C1: on a curved assignment, apply_clobber(z) followed by revert_clobber()
\* gives back exactly the assignment as it was before the clobber (score and
\* z-score restored, clobbered flag and snapshot cleared), and a revert that
\* directly follows a revert changes nothing and does not raise.
C1_RevertRestores ==
    /\ (hist.op = "revert_clobber" /\ hist.prevop = "apply_clobber"
            /\ hist.run = 1 /\ OriginCurved)
        => /\ hist.err = "none"
           /\ asg[1].score = hist.origin[1].score
           /\ asg[1].zscore = hist.origin[1].zscore
           /\ ~asg[1].clobbered
           /\ asg[1].before_clobber = None
           /\ asg = hist.origin
    /\ (hist.op = "revert_clobber" /\ hist.prevop = "revert_clobber")
        => (hist.err = "none" /\ asg = hist.prev)

\* apply_clobber(z); revert_clobber(); revert_clobber() has run on a curved
\* assignment whose clobbered z-score differed from its own
C1_Witness ==
    /\ hist.op = "revert_clobber" /\ hist.prevop = "revert_clobber"
    /\ hist.run = 1 /\ OriginCurved
    /\ asg = hist.origin
    /\ asg[1].zscore = R(-7)

\* C2: clobbers do not stack. After any number of consecutive apply_clobber
\* calls on a curved assignment its z-score is the last call's argument, and
\* one revert_clobber() gives back the (score, z-score) from before the
\* first of them.
C2_NoStacking ==
    /\ (hist.op = "apply_clobber" /\ OriginCurved)
        => /\ hist.err = "none"
           /\ asg[1].clobbered
           /\ asg[1].zscore = hist.arg
    /\ (hist.op = "revert_clobber" /\ hist.prevop = "apply_clobber"
            /\ hist.run >= 2 /\ OriginCurved)
        => /\ asg[1].score = hist.origin[1].score
           /\ asg[1].zscore = hist.origin[1].zscore
           /\ ~asg[1].clobbered

\* at least MaxRun clobbers in a row, then one revert, and the state just
\* before the revert was a clobbered one with another score
C2_Witness ==
    /\ hist.op = "revert_clobber" /\ hist.prevop = "apply_clobber"
    /\ hist.run = MaxRun /\ OriginCurved
    /\ hist.prev[1].clobbered
    /\ hist.prev[1].score # hist.origin[1].score
    /\ asg[1].score = hist.origin[1].score


(***************************************************************************)
(* One Course: components are added, replaced and removed, clobbers are    *)
(* applied and reverted.                                                   *)
(*   last  the last call and what it raised; flag says, for apply_clobber, *)
(*         that it returned right after an apply_clobber that returned and *)
(*         had clobbered a component this one does not clobber, for        *)
(*         remove_component, that the id was a component, for add_*, that  *)
(*         the weight was not in (0, 1]                                    *)
(*   orig  for every single assignment of the course, the (score, zscore)  *)
(*         its constructor computed: what no clobber has touched           *)
(***************************************************************************)
IDs == 1..MaxId

TargetLists == UNION {[1..n -> IDs] : n \in 0..MaxTargets}

Capacities == (-1)..MaxTargets

GivenName == <<"hw">>

Half == Rat(1, 2)

\* (weight, score, mu, sigma) of the curved singles that are added
CurvedSingleInputs ==
    {<<Half, R(40), R(50), R(10)>>, <<Half, R(60), R(50), R(10)>>,
     <<Half, R(60), R(50), R(20)>>}

\* (weight, score) of the uncurved singles that are added
UncurvedSingleInputs == {<<Half, R(80)>>}

\* (weight, num_drops) of the groups that are added
GroupInputs == {<<Half, 0>>}

\* the weight is in (0, 1]
InUnitInterval(weight) == RLt(R(0), weight) /\ RLe(weight, R(1))

Called(op, r, flag) == [op |-> op, err |-> r.err, flag |-> flag]

Returned(op) == last.op = op /\ last.err = "none"

\* orig after the call r of add_* with the id (override_id, or the id that
\* generate_id mints)
OrigAfterAdd(r, id) ==
    IF r.err # "none" THEN orig
    ELSE IF IsGroup(r.course.components[id].object) THEN Del(orig, id)
    ELSE Put(orig, id, [score  |-> r.course.components[id].object.score,
                        zscore |-> r.course.components[id].object.zscore])

\* the call r of add_* has been made
Added(op, r, weight, id) ==
    /\ course' = r.course
    /\ last' = Called(op, r, ~InUnitInterval(weight))
    /\ orig' = OrigAfterAdd(r, id)

\* course.add_curved_single(weight, score, name, 100, mu, sigma, id)
DoAddCurvedSingle(in, id) ==
    /\ Added("add_curved_single",
             AddCurvedSingle(course, in[1], in[2], GivenName, R(100), in[3], in[4], id),
             in[1], id)
    /\ UNCHANGED <<asgVars, profileVars, groupVars, idVars, loopVars>>

\* course.add_uncurved_single(weight, score, name, 100, id)
DoAddUncurvedSingle(in, id) ==
    /\ Added("add_uncurved_single",
             AddUncurvedSingle(course, in[1], in[2], GivenName, R(100), id), in[1], id)
    /\ UNCHANGED <<asgVars, profileVars, groupVars, idVars, loopVars>>

\* course.add_curved_group(weight, name, None, num_drops, id)
DoAddCurvedGroup(in, id) ==
    /\ Added("add_curved_group",
             AddCurvedGroup(course, in[1], GivenName, None, in[2], id), in[1], id)
    /\ UNCHANGED <<asgVars, profileVars, groupVars, idVars, loopVars>>

\* course.add_uncurved_group(weight, name, None, num_drops, id)
DoAddUncurvedGroup(in, id) ==
    /\ Added("add_uncurved_group",
             AddUncurvedGroup(course, in[1], GivenName, None, in[2], id), in[1], id)
    /\ UNCHANGED <<asgVars, profileVars, groupVars, idVars, loopVars>>

\* the call before was an apply_clobber that returned, and the call that
\* gave r returned and left alone a component that one had clobbered
Released(r) ==
    /\ Returned("apply_clobber")
    /\ r.err = "none"
    /\ \E i \in DOMAIN course.clobber_info[1].targets :
          \A j \in DOMAIN r.course.clobber_info[1].targets :
             r.course.clobber_info[1].targets[j] # course.clobber_info[1].targets[i]

\* the call r of a method that adds and removes no assignment has been made
Clobbered(op, r, flag) ==
    /\ course' = r.course
    /\ last' = Called(op, r, flag)
    /\ UNCHANGED orig

\* the flag of the call r of apply_clobber
AppliedClobber(r) == Clobbered("apply_clobber", r, Released(r))

\* course.apply_clobber(source, targets, capacity)
DoApplyClobber(source, targets, capacity) ==
    /\ AppliedClobber(CourseApplyClobber(course, source, targets, capacity))
    /\ UNCHANGED <<asgVars, profileVars, groupVars, idVars, loopVars>>

\* course.revert_clobber()
DoRevertClobber ==
    /\ Clobbered("revert_clobber", CourseRevertClobber(course), FALSE)
    /\ UNCHANGED <<asgVars, profileVars, groupVars, idVars, loopVars>>

\* the call r of remove_component has been made
Removed(r, id) ==
    /\ course' = r.course
    /\ last' = Called("remove_component", r, id \in Keys(course.components))
    /\ orig' = IF r.err = "none" THEN Del(orig, id) ELSE orig

\* course.remove_component(id)
DoRemoveComponent(id) ==
    /\ Removed(CourseRemoveComponent(course, id), id)
    /\ UNCHANGED <<asgVars, profileVars, groupVars, idVars, loopVars>>

Init ==
    /\ asg = None
    /\ hist = AsgStart
    /\ course = CourseInit(Rat(3, 5), None, 1).course
    /\ last = [op |-> "Course", err |-> "none", flag |-> FALSE]
    /\ orig = EmptyDict
    /\ profile = EmptyDict
    /\ plast = [op |-> "Profile", err |-> "none", calls |-> 0]
    /\ group = None
    /\ glast = [op |-> "start", err |-> "none"]
    /\ clock = 0
    /\ heap = {}
    /\ minted = <<>>
    /\ loop = Idle

Next ==
    \/ \E in \in CurvedSingleInputs, id \in IDs : DoAddCurvedSingle(in, id)
    \/ \E in \in GroupInputs, id \in IDs : DoAddCurvedGroup(in, id)
    \/ \E in \in GroupInputs, id \in IDs : DoAddUncurvedGroup(in, id)
    \/ \E source \in IDs, targets \in TargetLists, capacity \in Capacities :
          DoApplyClobber(source, targets, capacity)
    \/ DoRevertClobber
    \/ \E id \in IDs : DoRemoveComponent(id)

Spec == Init /\ [][Next]_vars

(***************************************************************************)
(* What Course.apply_clobber is to do, stated without the loop.            *)
(***************************************************************************)
Range(s) == {s[i] : i \in DOMAIN s}

Distinct(s) == \A i, j \in DOMAIN s : i # j => s[i] # s[j]

\* single, curved, ungrouped components of the course
ValidId(c, id) ==
    /\ id \in Keys(c.components)
    /\ c.components[id].curved
    /\ ~c.components[id].grouped

ValidCall(c, source, targets) ==
    /\ ValidId(c, source)
    /\ \A i \in DOMAIN targets : ValidId(c, targets[i])
    /\ Distinct(targets)
    /\ source \notin Range(targets)

\* the positions of the targets whose own z-score is below the source's
Lower(source, targets) ==
    {i \in DOMAIN targets : RLt(orig[targets[i]].zscore, orig[source].zscore)}

\* how many targets of Lower come before position i: lower z-score first,
\* then earlier position
Before(source, targets, i) ==
    Cardinality({j \in Lower(source, targets) :
        \/ RLt(orig[targets[j]].zscore, orig[targets[i]].zscore)
        \/ (orig[targets[j]].zscore = orig[targets[i]].zscore /\ j < i)})

\* the ids that are to be clobbered, in the order in which they are
Expected(source, targets, capacity) ==
    LET L == Lower(source, targets)
        cap == IF capacity = -1 THEN Len(targets) ELSE capacity
        k == Min(cap, Cardinality(L))
    IN  [n \in 1..k |->
            targets[CHOOSE i \in L : Before(source, targets, i) = n - 1]]

\* the course c holds the clobber of the ids in hit by source, and every
\* other single assignment as its constructor left it
ClobberedExactly(c, source, hit) ==
    /\ c.clobber_info = <<[source |-> source, targets |-> hit]>>
    /\ \A id \in Keys(c.components) :
          LET o == c.components[id].object
          IN  IF IsGroup(o) THEN TRUE
              ELSE IF id \in Range(hit)
              THEN /\ o.clobbered
                   /\ o.zscore = orig[source].zscore
                   /\ o.before_clobber = <<orig[id]>>
              ELSE /\ ~o.clobbered
                   /\ o.before_clobber = None
                   /\ o.score = orig[id].score
                   /\ o.zscore = orig[id].zscore

\* C3 (restricted to the calls that return): whenever apply_clobber(source,
\* targets, capacity) returns, clobber_info records the source and the
\* min(capacity, |L|) targets of lowest z-score among the targets L that are
\* strictly below the source, lowest first and the earlier position first
\* among equals, and exactly these hold the source's z-score.
C3_SelectsLowestWhenReturns ==
    \A source \in IDs, targets \in TargetLists, capacity \in Capacities :
        LET r == CourseApplyClobber(course, source, targets, capacity)
        IN  r.err = "none" =>
                ClobberedExactly(r.course, source,
                                 Expected(source, targets, capacity))

\* C3: for a curved, ungrouped source and distinct curved, ungrouped targets
\* that do not hold the source, apply_clobber(source, targets, capacity)
\* clobbers exactly the k = min(capacity, |L|) targets of lowest z-score
\* among the targets L strictly below the source (all of L for capacity -1),
\* ties going to the earlier position, and clobber_info records the source
\* and these k targets in the order in which they were clobbered.
C3_SelectsLowest ==
    \A source \in IDs, targets \in TargetLists, capacity \in Capacities :
        ValidCall(course, source, targets) =>
            LET r == CourseApplyClobber(course, source, targets, capacity)
            IN  /\ r.err = "none"
                /\ ClobberedExactly(r.course, source,
                                    Expected(source, targets, capacity))

\* C4: a call of apply_clobber that raises on its arguments (the source among
\* the targets; the source or a target unknown, not curved or grouped)
\* leaves the course as it was, also when a clobber was active before it.
C4_Atomic ==
    [][(last'.op = "apply_clobber" /\ last'.err = "ValueError")
          => course' = course]_vars

\* C5: when apply_clobber returns right after an apply_clobber that returned,
\* the course holds the second clobber only: clobber_info records the second
\* source and the targets chosen by the z-scores that no clobber has touched,
\* these targets hold the source's untouched z-score over a snapshot of their
\* own untouched values, and every other assignment is not clobbered and has
\* its untouched score and z-score.
C5_OneClobberActive ==
    Returned("apply_clobber") =>
        \A source \in IDs, targets \in TargetLists, capacity \in Capacities :
            LET r == CourseApplyClobber(course, source, targets, capacity)
            IN  r.err = "none" =>
                    ClobberedExactly(r.course, source,
                                     Expected(source, targets, capacity))

\* C5 happens: the second of two apply_clobber calls has returned, it
\* clobbered a target, and a component the first call had clobbered is not
\* among its targets and is back to its untouched values.
C5_Witness ==
    /\ Returned("apply_clobber")
    /\ last.flag
    /\ course.clobber_info[1].targets # <<>>
    /\ \E id \in Keys(orig) :
          /\ id \notin Range(course.clobber_info[1].targets)
          /\ RLt(orig[id].zscore, orig[course.clobber_info[1].source].zscore)
          /\ ~course.components[id].object.clobbered
          /\ course.components[id].object.zscore = orig[id].zscore

\* the listed targets of the clobber that c records are restored in c2
Restored(c, c2) ==
    \A i \in DOMAIN c.clobber_info[1].targets :
        LET t == c.clobber_info[1].targets[i]
        IN  /\ t \in Keys(c.components)
            /\ ~IsGroup(c.components[t].object)
            /\ t \in Keys(c2.components)
            /\ ~c2.components[t].object.clobbered
            /\ c2.components[t].object.before_clobber = None
            /\ c.components[t].object.clobbered =>
                  c.components[t].object.before_clobber =
                      <<[score  |-> c2.components[t].object.score,
                         zscore |-> c2.components[t].object.zscore]>>

\* C6: revert_clobber changes nothing when no clobber is active; when one is,
\* it restores every target that clobber_info lists to its before_clobber
\* snapshot and sets clobber_info to None; so apply_clobber followed by
\* revert_clobber leaves every component as it was before the apply_clobber
\* (stated for a course with no clobber active before the apply_clobber:
\* with one active, the components before the call are clobbered ones).
C6_RevertRestores ==
    LET r == CourseRevertClobber(course)
    IN  /\ r.err = "none"
        /\ course.clobber_info = None => r.course = course
        /\ course.clobber_info # None =>
              /\ r.course.clobber_info = None
              /\ Restored(course, r.course)
        /\ course.clobber_info = None =>
              \A source \in IDs, targets \in TargetLists, capacity \in Capacities :
                 LET a == CourseApplyClobber(course, source, targets, capacity)
                 IN  a.err = "none" =>
                        /\ CourseRevertClobber(a.course).err = "none"
                        /\ CourseRevertClobber(a.course).course = course

\* every target that clobber_info lists is a component and a single one
ClobberTargetsAreSingles ==
    course.clobber_info # None =>
        \A i \in DOMAIN course.clobber_info[1].targets :
            /\ course.clobber_info[1].targets[i] \in Keys(course.components)
            /\ ~IsGroup(course.components[course.clobber_info[1].targets[i]].object)

\* C3 and C6 in the states where no add_* has put a group under the id of a
\* clobbered target: there both hold.
C3_C6_OverSingleTargets ==
    ClobberTargetsAreSingles => (C3_SelectsLowest /\ C6_RevertRestores)

\* C7: remove_component of an id that is no component changes nothing and
\* raises nothing, also while a clobber is active.
C7_RemoveAbsentNoOp ==
    [][(last'.op = "remove_component" /\ ~last'.flag)
          => (last'.err = "none" /\ course' = course)]_vars

(***************************************************************************)
(* One Course whose components carry weights inside and outside (0, 1],    *)
(* and its summary.  The course does not keep the order in which its       *)
(* components were inserted: get_summary is taken in every order of the    *)
(* keys.  No group is given an assignment here.                            *)
(***************************************************************************)
WeightedCurvedSingleInputs ==
    {<<w, R(60), R(50), R(10)>> : w \in {Rat(1, 4), Half, R(0)}}

WeightedUncurvedSingleInputs == {<<w, R(90)>> : w \in {Half, R(1), Rat(3, 2)}}

WeightedCurvedGroupInputs == {<<w, 0>> : w \in {Half, Rat(-1, 2)}}

WeightedUncurvedGroupInputs == {<<w, 0>> : w \in {Rat(1, 4), R(2)}}

\* the orders in which a dict with some of the ids as keys can be iterated
KeyOrders == {s \in UNION {[1..n -> IDs] : n \in 0..MaxId} : Distinct(s)}

\* the orders in which the dict d can be iterated
Orders(d) == {s \in KeyOrders : Range(s) = Keys(d)}

\* the call r of get_summary has been made
Summarized(r) ==
    /\ last' = [op |-> "get_summary", err |-> r.err, flag |-> FALSE,
                msg |-> r.msg, summary |-> r.summary]
    /\ UNCHANGED <<course, orig>>

\* course.get_summary(), the dict being in the given order
DoGetSummary(order) ==
    /\ order \in Orders(course.components)
    /\ Summarized(CourseGetSummary(course, order))
    /\ UNCHANGED <<asgVars, profileVars, groupVars, idVars, loopVars>>

NextWeights ==
    \/ \E in \in WeightedCurvedSingleInputs, id \in IDs : DoAddCurvedSingle(in, id)
    \/ \E in \in WeightedUncurvedSingleInputs, id \in IDs : DoAddUncurvedSingle(in, id)
    \/ \E in \in WeightedCurvedGroupInputs, id \in IDs : DoAddCurvedGroup(in, id)
    \/ \E in \in WeightedUncurvedGroupInputs, id \in IDs : DoAddUncurvedGroup(in, id)
    \/ \E id \in IDs : DoRemoveComponent(id)
    \/ \E order \in KeyOrders : DoGetSummary(order)

SpecWeights == Init /\ [][NextWeights]_vars

\* the sum of the weights of the components with the ids in S
RECURSIVE WeightOf(_, _)
WeightOf(c, S) ==
    IF S = {} THEN R(0)
    ELSE LET id == CHOOSE x \in S : TRUE
         IN  RAdd(c.components[id].weight, WeightOf(c, S \ {id}))

UnitWeights == {Rat(1, 100), Rat(1, 4), Half, R(1)}

OutsideWeights == {R(0), Rat(-1, 2), Rat(101, 100), Rat(3, 2), R(2)}

\* the call r registered a component with the id and the weight
Registered(r, id, weight) ==
    /\ r.err = "none"
    /\ id \in Keys(r.course.components)
    /\ r.course.components[id].weight = weight
    /\ r.course.components[id].object.weight = weight

\* C8: whatever the weights of the components a course has, each add_* with
\* a weight in (0, 1] (and, for the curved single, a mean and a non-zero
\* deviation) registers the component; and whenever the weights of the
\* components sum to more than 1, get_summary raises the weight-overflow
\* error in every order of the components.
C8_OverflowAtSummary ==
    /\ \A id \in IDs, w \in UnitWeights :
          /\ Registered(AddCurvedSingle(course, w, R(60), None, R(100), R(50), R(10), id), id, w)
          /\ Registered(AddUncurvedSingle(course, w, R(90), None, R(100), id), id, w)
          /\ Registered(AddCurvedGroup(course, w, None, None, 0, id), id, w)
          /\ Registered(AddUncurvedGroup(course, w, None, None, 0, id), id, w)
    /\ RLt(R(1), WeightOf(course, Keys(course.components))) =>
          \A order \in Orders(course.components) :
              /\ CourseGetSummary(course, order).err = "ValueError"
              /\ CourseGetSummary(course, order).msg = "Total weight exceeds one."

\* C8 happens: get_summary has raised on a course of three components or more
\* that were all added although no two of them leave room for a third: the
\* weights exceed 1 only together, so which one tips the total depends on
\* the order.
C8_Witness ==
    /\ last.op = "get_summary"
    /\ last.err = "ValueError"
    /\ Cardinality(Keys(course.components)) >= 3
    /\ \A id \in Keys(course.components) :
          RLe(WeightOf(course, Keys(course.components) \ {id}), R(1))

\* C10: each of the four add_* called with a weight that is 0 or less, or
\* more than 1, raises ValueError and leaves the course as it was.
C10_EagerWeightValidation ==
    \A id \in IDs, w \in OutsideWeights :
        /\ AddCurvedSingle(course, w, R(60), None, R(100), R(50), R(10), id)
              = CRaise("ValueError", "", course)
        /\ AddUncurvedSingle(course, w, R(90), None, R(100), id)
              = CRaise("ValueError", "", course)
        /\ AddCurvedGroup(course, w, None, None, 0, id)
              = CRaise("ValueError", "", course)
        /\ AddUncurvedGroup(course, w, None, None, 0, id)
              = CRaise("ValueError", "", course)

\* C10 happens: an add_* with a weight outside (0, 1] has raised on a course
\* that has components, one of them under the id the call was given.
C10_Witness ==
    /\ last.op \in {"add_curved_single", "add_uncurved_single",
                    "add_curved_group", "add_uncurved_group"}
    /\ last.flag
    /\ last.err = "ValueError"
    /\ Cardinality(Keys(course.components)) >= 2

(***************************************************************************)
(* Export to JSON and reconstruction from it.  A JSON object is the record *)
(* of its keys; the dict of a group's assignments is, like the group's     *)
(* own, the sequence of its values in the order of insertion, each under   *)
(* the key that is its id.                                                 *)
(***************************************************************************)
\* ID(value): the id as a string; ids are compared as strings
ID(value) == value

\* Assignment._to_json
AssignmentToJson(a) ==
    [ id             |-> a.id,
      name           |-> a.name,
      weight         |-> a.weight,
      score          |-> a.score,
      upper          |-> a.upper,
      curved         |-> a.curved,
      mu             |-> a.mu,
      sigma          |-> a.sigma,
      zscore         |-> a.zscore,
      clobbered      |-> a.clobbered,
      before_clobber |-> a.before_clobber,
      class          |-> "Assignment" ]

\* CurvedSingleAssignment._to_json
CurvedSingleAssignmentToJson(a) ==
    [AssignmentToJson(a) EXCEPT !.class = "CurvedSingleAssignment"]

\* UncurvedSingleAssignment._to_json
UncurvedSingleAssignmentToJson(a) ==
    [AssignmentToJson(a) EXCEPT !.class = "UncurvedSingleAssignment"]

\* AssignmentGroup._to_json; the assignments of a group are of class Assignment
AssignmentGroupToJson(g) ==
    [ id          |-> g.id,
      name        |-> g.name,
      weight      |-> g.weight,
      corr        |-> g.corr,
      curved      |-> g.curved,
      num_drops   |-> g.num_drops,
      assignments |-> [i \in DOMAIN g.assignments |->
                          AssignmentToJson(g.assignments[i])],
      class       |-> "AssignmentGroup" ]

\* CurvedAssignmentGroup._to_json
CurvedAssignmentGroupToJson(g) ==
    [AssignmentGroupToJson(g) EXCEPT !.class = "CurvedAssignmentGroup"]

\* UncurvedAssignmentGroup._to_json
UncurvedAssignmentGroupToJson(g) ==
    [AssignmentGroupToJson(g) EXCEPT !.class = "UncurvedAssignmentGroup"]

\* info["object"]._to_json(): the method of the object's class
ObjectToJson(obj) ==
    CASE obj.class = "CurvedSingleAssignment"   -> CurvedSingleAssignmentToJson(obj)
      [] obj.class = "UncurvedSingleAssignment" -> UncurvedSingleAssignmentToJson(obj)
      [] obj.class = "CurvedAssignmentGroup"    -> CurvedAssignmentGroupToJson(obj)
      [] obj.class = "UncurvedAssignmentGroup"  -> UncurvedAssignmentGroupToJson(obj)
      [] OTHER                                  -> AssignmentToJson(obj)

\* Course._to_json
CourseToJson(c) ==
    [ id                  |-> c.id,
      name                |-> c.name,
      corr                |-> c.corr,
      status              |-> c.status,
      clobber_info        |-> c.clobber_info,
      uncurved_boundaries |-> c.uncurved_boundaries,
      curved_boundaries   |-> c.curved_boundaries,
      components          |-> [id \in Keys(c.components) |->
                                 [c.components[id] EXCEPT
                                     !.object = ObjectToJson(@)]],
      class               |-> "Course" ]

\* Profile.to_json
ProfileToJson(courses) ==
    [id \in Keys(courses) |-> CourseToJson(courses[id])]

\* a reconstruction that forgets the snapshot of a clobbered assignment
AssignmentFromJsonNoSnapshot(json, class) ==
    [ id             |-> ID(json.id),
      name           |-> json.name,
      weight         |-> json.weight,
      score          |-> json.score,
      upper          |-> json.upper,
      curved         |-> json.curved,
      mu             |-> json.mu,
      sigma          |-> json.sigma,
      zscore         |-> json.zscore,
      clobbered      |-> json.clobbered,
      before_clobber |-> None,
      class          |-> class ]

\* Assignment._from_json, run by the constructor of the class
AssignmentFromJson(json, class) ==
    [ id             |-> ID(json.id),
      name           |-> json.name,
      weight         |-> json.weight,
      score          |-> json.score,
      upper          |-> json.upper,
      curved         |-> json.curved,
      mu             |-> json.mu,
      sigma          |-> json.sigma,
      zscore         |-> json.zscore,
      clobbered      |-> json.clobbered,
      before_clobber |-> json.before_clobber,
      class          |-> class ]

\* CurvedSingleAssignment(weight, score, override_json = json) and
\* UncurvedSingleAssignment(weight, score, override_json = json): the weight
\* is checked, it is not assigned
SingleAssignmentFromJson(weight, json, class) ==
    IF InvalidWeight(weight) THEN Raise("ValueError", None)
    ELSE Ok(AssignmentFromJson(json, class))

\* the loop of AssignmentGroup._from_json over json["assignments"], from the
\* i-th item on
RECURSIVE LoadAssignments(_, _, _)
LoadAssignments(items, i, assignments) ==
    IF i > Len(items) THEN Ok(assignments)
    ELSE IF items[i].class # "Assignment" THEN Raise("AssertionError", None)
    ELSE LoadAssignments(items, i + 1,
            PutAssignment(assignments, AssignmentFromJson(items[i], "Assignment")))

\* the group the loaded assignments r are put in
LoadedGroup(json, r, curved, class) ==
    IF r.err # "none" THEN r
    ELSE Ok([ id          |-> ID(json.id),
              name        |-> json.name,
              weight      |-> json.weight,
              corr        |-> json.corr,
              curved      |-> curved,
              num_drops   |-> json.num_drops,
              assignments |-> r.obj,
              class       |-> class ])

\* CurvedAssignmentGroup(weight, name, override_json = json) and
\* UncurvedAssignmentGroup(weight, name, override_json = json):
\* AssignmentGroup._from_json, then the subclass's assignment to self.curved
AssignmentGroupFromJson(json, curved, class) ==
    LoadedGroup(json, LoadAssignments(json.assignments, 1, <<>>), curved, class)

\* allowed_classes[obj_class](0.5, 5, override_json = info["object"])
ObjectFromJson(json) ==
    CASE json.class = "CurvedSingleAssignment" ->
            SingleAssignmentFromJson(Rat(1, 2), json, "CurvedSingleAssignment")
      [] json.class = "UncurvedSingleAssignment" ->
            SingleAssignmentFromJson(Rat(1, 2), json, "UncurvedSingleAssignment")
      [] json.class = "CurvedAssignmentGroup" ->
            AssignmentGroupFromJson(json, TRUE, "CurvedAssignmentGroup")
      [] json.class = "UncurvedAssignmentGroup" ->
            AssignmentGroupFromJson(json, FALSE, "UncurvedAssignmentGroup")
      [] OTHER -> Raise("AssertionError", None)

\* info with info["object"] = obj
InfoFromJson(info) ==
    IF ObjectFromJson(info.object).err # "none" THEN ObjectFromJson(info.object)
    ELSE Ok([info EXCEPT !.object = ObjectFromJson(info.object).obj])

\* the course the rebuilt components r are put in
LoadedCourse(json, r) ==
    IF r.err # "none" THEN r
    ELSE Ok([ id                  |-> ID(json.id),
              corr                |-> json.corr,
              name                |-> json.name,
              status              |-> json.status,
              components          |-> r.obj,
              clobber_info        |-> json.clobber_info,
              uncurved_boundaries |-> json.uncurved_boundaries,
              curved_boundaries   |-> json.curved_boundaries ])

\* json["components"] with every object rebuilt; failing are the ids whose
\* object raises, and the first of them in the order of the dict ends the loop
LoadedComponents(components, failing) ==
    IF failing # {}
    THEN Raise(InfoFromJson(components[CHOOSE id \in failing : TRUE]).err, None)
    ELSE Ok([id \in Keys(components) |-> InfoFromJson(components[id]).obj])

\* Course(override_json = json): Course._from_json
CourseFromJson(json) ==
    LoadedCourse(json,
        LoadedComponents(json.components,
            {id \in Keys(json.components) :
                InfoFromJson(json.components[id]).err # "none"}))

\* self.courses with every course rebuilt; failing are the ids whose course
\* raises, and the first of them in the order of the dict ends the loop
LoadedCourses(json, failing) ==
    IF failing # {}
    THEN Raise(CourseFromJson(json[CHOOSE id \in failing : TRUE]).err, None)
    ELSE Ok([id \in Keys(json) |-> CourseFromJson(json[id]).obj])

\* Profile(override_json = json): Profile.from_json
ProfileFromJson(json) ==
    LoadedCourses(json, {id \in Keys(json) : CourseFromJson(json[id]).err # "none"})

(***************************************************************************)
(* A Profile: courses are added, their status is set, components are added *)
(* to them, assignments are added to their groups and clobbers are         *)
(* applied.                                                                *)
(*   profile  Profile.courses, the dict {id : Course}                      *)
(*   plast    the last call, what it raised, and the number of calls made  *)
(***************************************************************************)
CourseIds == 1..MaxCourses

ComponentIds == 1..MaxKey

\* the ids the assignments of a group are given
AssignmentIds == 1..MaxAssignments

\* (weight, score, mu, sigma) of the curved singles that are added: one
\* below the mean and one above
ProfileCurvedSingleInputs ==
    {<<Half, R(40), R(50), R(10)>>, <<Half, R(60), R(50), R(10)>>}

\* the statuses a course is given: one that is allowed and one that is not
Statuses == {"Completed", "Done"}

\* Course._allowed_status
AllowedStatus == {"In Progress", "Completed", "Other"}

\* the lists of targets an apply_clobber on a course of the profile is given
ProfileTargetLists == {s \in UNION {[1..n -> ComponentIds] : n \in 1..MaxTargets} : Distinct(s)}

ProfileCalled(op, err) == [op |-> op, err |-> err, calls |-> plast.calls + 1]

\* a call can be made
MayCall == plast.calls < MaxCalls

\* Profile.add_course(0.6, None), generate_id minting the id
ProfileAddCourse(courses, id) ==
    Put(courses, id, CourseInit(Rat(3, 5),
                                <<"Course " \o Str(Cardinality(Keys(courses)) + 1)>>,
                                id).course)

\* profile.add_course(); the id minted is the id of no course there is
DoAddCourse(id) ==
    /\ MayCall
    /\ id \notin Keys(profile)
    /\ profile' = ProfileAddCourse(profile, id)
    /\ plast' = ProfileCalled("add_course", "none")
    /\ UNCHANGED <<asgVars, courseVars, groupVars, idVars, loopVars>>

\* Course.set_status
CourseSetStatus(c, status) ==
    IF status \in AllowedStatus THEN COk([c EXCEPT !.status = status])
    ELSE CRaise("ValueError", "Invalid status.", c)

\* the call r of a method of the course profile[cid] has been made
OnCourse(cid, op, r) ==
    /\ profile' = [profile EXCEPT ![cid] = r.course]
    /\ plast' = ProfileCalled(op, r.err)

\* profile[cid].set_status(status)
DoSetStatus(cid, status) ==
    /\ MayCall
    /\ cid \in Keys(profile)
    /\ OnCourse(cid, "set_status", CourseSetStatus(profile[cid], status))
    /\ UNCHANGED <<asgVars, courseVars, groupVars, idVars, loopVars>>

\* profile[cid].add_curved_single(weight, score, name, 100, mu, sigma, id)
DoProfileAddCurvedSingle(cid, in, id) ==
    /\ MayCall
    /\ cid \in Keys(profile)
    /\ OnCourse(cid, "add_curved_single",
                AddCurvedSingle(profile[cid], in[1], in[2], GivenName, R(100),
                                in[3], in[4], id))
    /\ UNCHANGED <<asgVars, courseVars, groupVars, idVars, loopVars>>

\* profile[cid].add_uncurved_single(weight, score, name, 100, id)
DoProfileAddUncurvedSingle(cid, in, id) ==
    /\ MayCall
    /\ cid \in Keys(profile)
    /\ OnCourse(cid, "add_uncurved_single",
                AddUncurvedSingle(profile[cid], in[1], in[2], GivenName, R(100), id))
    /\ UNCHANGED <<asgVars, courseVars, groupVars, idVars, loopVars>>

\* profile[cid].add_curved_group(weight, name, None, num_drops, id)
DoProfileAddCurvedGroup(cid, in, id) ==
    /\ MayCall
    /\ cid \in Keys(profile)
    /\ OnCourse(cid, "add_curved_group",
                AddCurvedGroup(profile[cid], in[1], GivenName, None, in[2], id))
    /\ UNCHANGED <<asgVars, courseVars, groupVars, idVars, loopVars>>

\* profile[cid].add_uncurved_group(weight, name, None, num_drops, id)
DoProfileAddUncurvedGroup(cid, in, id) ==
    /\ MayCall
    /\ cid \in Keys(profile)
    /\ OnCourse(cid, "add_uncurved_group",
                AddUncurvedGroup(profile[cid], in[1], GivenName, None, in[2], id))
    /\ UNCHANGED <<asgVars, courseVars, groupVars, idVars, loopVars>>

\* group.add_assignment of the group's class: a curved group is given a
\* score with mu and sigma, an uncurved group a score
GroupAddAssignment(g, id) ==
    IF g.class = "CurvedAssignmentGroup"
    THEN CurvedGroupAddAssignment(g, R(60), None, R(100), R(50), R(10), id)
    ELSE UncurvedGroupAddAssignment(g, R(80), None, R(100), id)

\* the course whose component gid is the group after the call r: the info
\* holds the group object itself
WithGroup(c, gid, r) ==
    [err |-> r.err, msg |-> "",
     course |-> [c EXCEPT !.components[gid].object = r.obj]]

\* profile[cid].get_components()[gid]["object"].add_assignment(..., id)
DoGroupAddAssignment(cid, gid, id) ==
    /\ MayCall
    /\ cid \in Keys(profile)
    /\ gid \in Keys(profile[cid].components)
    /\ IsGroup(profile[cid].components[gid].object)
    /\ OnCourse(cid, "add_assignment",
                WithGroup(profile[cid], gid,
                          GroupAddAssignment(profile[cid].components[gid].object, id)))
    /\ UNCHANGED <<asgVars, courseVars, groupVars, idVars, loopVars>>

\* profile[cid].apply_clobber(source, targets, capacity)
DoProfileApplyClobber(cid, source, targets, capacity) ==
    /\ MayCall
    /\ cid \in Keys(profile)
    /\ OnCourse(cid, "apply_clobber",
                CourseApplyClobber(profile[cid], source, targets, capacity))
    /\ UNCHANGED <<asgVars, courseVars, groupVars, idVars, loopVars>>

NextProfile ==
    \/ \E id \in CourseIds : DoAddCourse(id)
    \/ \E cid \in CourseIds, status \in Statuses : DoSetStatus(cid, status)
    \/ \E cid \in CourseIds, in \in ProfileCurvedSingleInputs, id \in ComponentIds :
          DoProfileAddCurvedSingle(cid, in, id)
    \/ \E cid \in CourseIds, in \in UncurvedSingleInputs, id \in ComponentIds :
          DoProfileAddUncurvedSingle(cid, in, id)
    \/ \E cid \in CourseIds, in \in GroupInputs, id \in ComponentIds :
          DoProfileAddCurvedGroup(cid, in, id)
    \/ \E cid \in CourseIds, in \in GroupInputs, id \in ComponentIds :
          DoProfileAddUncurvedGroup(cid, in, id)
    \/ \E cid \in CourseIds, gid \in ComponentIds, id \in AssignmentIds :
          DoGroupAddAssignment(cid, gid, id)
    \/ \E cid \in CourseIds, source \in ComponentIds, targets \in ProfileTargetLists :
          DoProfileApplyClobber(cid, source, targets, 1)

SpecProfile == Init /\ [][NextProfile]_vars

\* C9: for every profile p reached through add_course, set_status, the four
\* add_*, a group's add_assignment and Course.apply_clobber,
\* Profile(override_json = p.to_json()) raises nothing and has the courses of
\* p, equal in every field down to the assignments of the groups: ids,
\* names, weights, scores, z-scores, mu and sigma, curved and grouped flags,
\* clobbered flag and snapshot, clobber_info, boundaries, status and class.
C9_RoundTrip == ProfileFromJson(ProfileToJson(profile)) = Ok(profile)

\* C9 happens: a profile with two courses is exported and reconstructed,
\* one of its courses has a clobbered assignment and its clobber_info, one
\* has a group that holds an assignment.
C9_Witness ==
    /\ Cardinality(Keys(profile)) >= 2
    /\ \E cid \in Keys(profile) :
          /\ profile[cid].clobber_info # None
          /\ \E id \in Keys(profile[cid].components) :
                /\ ~IsGroup(profile[cid].components[id].object)
                /\ profile[cid].components[id].object.clobbered
                /\ profile[cid].components[id].object.before_clobber # None
    /\ \E cid \in Keys(profile) :
          \E id \in Keys(profile[cid].components) :
             /\ IsGroup(profile[cid].components[id].object)
             /\ Len(profile[cid].components[id].object.assignments) >= 1
    /\ ProfileFromJson(ProfileToJson(profile)).err = "none"

(***************************************************************************)
(* A stand-alone Assignment with its upper varied: construction, its       *)
(* accessors, a clobber.                                                   *)
(*   asg   the assignment last constructed, <<>> before the first          *)
(*   hist  the last call: its arguments and what it raised                 *)
(***************************************************************************)
\* Assignment.get_score
GetScore(a) == a.score

\* Assignment.get_zscore
GetZscore(a) == a.zscore

UpperInputs == {R(100), R(10), R(1)}

\* a = Assignment(score, None, upper, mu, sigma, curved); a constructor that
\* raises leaves the assignment made before as it is
Constructed(r, score, upper, mu, sigma, curved) ==
    /\ asg' = IF r.err = "none" THEN <<r.obj>> ELSE asg
    /\ hist' = [op |-> "construct", err |-> r.err, score |-> score,
                upper |-> upper, mu |-> mu, sigma |-> sigma, curved |-> curved,
                zscore |-> None]

DoConstruct(score, upper, mu, sigma, curved) ==
    /\ Constructed(AssignmentInit(score, None, upper, mu, sigma, curved, 1, "Assignment"),
                   score, upper, mu, sigma, curved)
    /\ UNCHANGED <<courseVars, profileVars, groupVars, idVars, loopVars>>

\* a.apply_clobber(zscore) has been called and r is what it did; mu, sigma
\* and upper are the assignment's
ClobberCalled(r, zscore) ==
    /\ asg' = <<r.obj>>
    /\ hist' = [op |-> "apply_clobber", err |-> r.err, score |-> asg[1].score,
                upper |-> asg[1].upper, mu |-> asg[1].mu, sigma |-> asg[1].sigma,
                curved |-> asg[1].curved, zscore |-> zscore]

\* a.apply_clobber(zscore)
DoClobber(zscore) ==
    /\ asg # None
    /\ ClobberCalled(AssignmentApplyClobber(asg[1], zscore), zscore)
    /\ UNCHANGED <<courseVars, profileVars, groupVars, idVars, loopVars>>

NextScores ==
    \/ \E score \in ScoreInputs, upper \in UpperInputs, mu \in MuInputs,
          sigma \in SigmaInputs, curved \in BOOLEAN :
          DoConstruct(score, upper, mu, sigma, curved)
    \/ \E zscore \in ZInputs : DoClobber(zscore)

SpecScores == InitAssignment /\ [][NextScores]_vars

\* C11: a curved Assignment constructed with mu and sigma both given, any
\* mu (0 too), sigma not 0 and upper > 0, is constructed without an error
\* and its get_zscore() is (score - mu) / sigma, which is
\* (score/upper - mu/upper) / (sigma/upper).
C11_ZScore ==
    (/\ hist.op = "construct" /\ hist.curved
     /\ hist.mu # None /\ hist.sigma # None /\ hist.sigma # R(0)
     /\ RLt(R(0), hist.upper))
    => /\ hist.err = "none"
       /\ GetZscore(asg[1]) = RDiv(RSub(hist.score, hist.mu), hist.sigma)
       /\ GetZscore(asg[1]) =
             RDiv(RSub(RDiv(hist.score, hist.upper), RDiv(hist.mu, hist.upper)),
                  RDiv(hist.sigma, hist.upper))

\* C11 for a mean that is not 0: there the constructor returns and the
\* z-score is the claimed one.
C11_ZScoreNonzeroMean ==
    (/\ hist.op = "construct" /\ hist.curved
     /\ hist.mu # None /\ hist.mu # R(0)
     /\ hist.sigma # None /\ hist.sigma # R(0)
     /\ RLt(R(0), hist.upper))
    => /\ hist.err = "none"
       /\ GetZscore(asg[1]) = RDiv(RSub(hist.score, hist.mu), hist.sigma)
       /\ GetZscore(asg[1]) =
             RDiv(RSub(RDiv(hist.score, hist.upper), RDiv(hist.mu, hist.upper)),
                  RDiv(hist.sigma, hist.upper))

\* C12: an uncurved Assignment(score, upper) with upper > 0 is constructed
\* without an error, its get_score() and its get_primary_score() are the
\* fraction score / upper, and its get_zscore() is 0.
C12_FractionalScore ==
    (hist.op = "construct" /\ ~hist.curved /\ RLt(R(0), hist.upper))
    => /\ hist.err = "none"
       /\ GetScore(asg[1]) = RDiv(hist.score, hist.upper)
       /\ PrimaryScore(asg[1]) = RDiv(hist.score, hist.upper)
       /\ GetZscore(asg[1]) = R(0)

\* C12 with the score as it was given: get_score() and get_primary_score()
\* return the score that was passed, the fraction score / upper is the
\* _percentage of get_summary(), and get_zscore() is 0.
C12_RawScore ==
    (hist.op = "construct" /\ ~hist.curved /\ RLt(R(0), hist.upper))
    => /\ hist.err = "none"
       /\ GetScore(asg[1]) = hist.score
       /\ PrimaryScore(asg[1]) = hist.score
       /\ AssignmentGetSummary(asg[1]).summary._percentage
             = RDiv(hist.score, hist.upper)
       /\ GetZscore(asg[1]) = R(0)

\* C13: after apply_clobber(z) on a curved assignment get_zscore() is z and
\* get_score() is z * sigma + mu as a fraction of upper: (z * sigma + mu) /
\* upper for the mu and sigma that were given.
C13_ClobberedScore ==
    (hist.op = "apply_clobber" /\ hist.curved)
    => /\ hist.err = "none"
       /\ GetZscore(asg[1]) = hist.zscore
       /\ GetScore(asg[1]) =
             RDiv(RAdd(RMul(hist.zscore, hist.sigma), hist.mu), hist.upper)

\* C13 in the units of the arguments: get_zscore() is z, get_score() is
\* z * sigma + mu, and the _percentage of get_summary() is that over upper.
C13_ClobberedRawScore ==
    (hist.op = "apply_clobber" /\ hist.curved)
    => /\ hist.err = "none"
       /\ GetZscore(asg[1]) = hist.zscore
       /\ GetScore(asg[1]) = RAdd(RMul(hist.zscore, hist.sigma), hist.mu)
       /\ AssignmentGetSummary(asg[1]).summary._percentage =
             RDiv(RAdd(RMul(hist.zscore, hist.sigma), hist.mu), hist.upper)

(***************************************************************************)
(* A stand-alone AssignmentGroup: it is made curved or uncurved with its   *)
(* num_drops, assignments are added to it, its summary and its detail are  *)
(* taken.                                                                  *)
(*   group  the group last made, <<>> before the first                     *)
(*   glast  the last call, what it raised and what it returned             *)
(***************************************************************************)
\* (score, upper, mu, sigma) of the assignments that are added; an uncurved
\* group is given the score and the upper.  Fractions 1/2, 9/10 and 2/5,
\* z-scores 0, 2 and -1.
GroupAssignmentInputs ==
    {<<R(50), R(100), R(50), R(10)>>, <<R(9), R(10), R(5), R(2)>>,
     <<R(40), R(100), R(50), R(10)>>}

\* CurvedAssignmentGroup(0.5, name, 0.6, num_drops, 1) or
\* UncurvedAssignmentGroup(0.5, name, None, num_drops, 1)
NewGroup(curved, num_drops) ==
    IF curved THEN CurvedAssignmentGroupInit(Half, GivenName, Rat(3, 5), num_drops, 1)
    ELSE UncurvedAssignmentGroupInit(Half, GivenName, None, num_drops, 1)

\* g = CurvedAssignmentGroup(...) or g = UncurvedAssignmentGroup(...)
DoNewGroup(curved, num_drops) ==
    /\ group' = <<NewGroup(curved, num_drops).obj>>
    /\ glast' = [op |-> "AssignmentGroup", err |-> "none"]
    /\ UNCHANGED <<asgVars, courseVars, profileVars, idVars, loopVars>>

\* add_assignment of the group's class with the inputs in and the id
AddAssignment(g, in, id) ==
    IF g.class = "CurvedAssignmentGroup"
    THEN CurvedGroupAddAssignment(g, in[1], None, in[2], in[3], in[4], id)
    ELSE UncurvedGroupAddAssignment(g, in[1], None, in[2], id)

\* the call r of add_assignment has been made
AssignmentAdded(r) ==
    /\ group' = <<r.obj>>
    /\ glast' = [op |-> "add_assignment", err |-> r.err]

\* g.add_assignment(score, None, upper[, mu, sigma]); the ids are minted in
\* the order of the calls
DoAddAssignment(in) ==
    /\ group # None
    /\ Len(group[1].assignments) < MaxGroup
    /\ AssignmentAdded(AddAssignment(group[1], in, Len(group[1].assignments) + 1))
    /\ UNCHANGED <<asgVars, courseVars, profileVars, idVars, loopVars>>

\* g.get_summary()
DoGroupGetSummary ==
    /\ group # None
    /\ glast' = [op |-> "get_summary", err |-> GroupGetSummary(group[1]).err,
                 result |-> GroupGetSummary(group[1]).summary]
    /\ UNCHANGED <<group, asgVars, courseVars, profileVars, idVars, loopVars>>

NextGroup ==
    \/ \E curved \in BOOLEAN, num_drops \in 0..MaxDrops : DoNewGroup(curved, num_drops)
    \/ \E in \in GroupAssignmentInputs : DoAddAssignment(in)
    \/ DoGroupGetSummary

SpecGroup == Init /\ [][NextGroup]_vars

\* the number of assignments of g that rank below its i-th: a lower primary
\* score, or the same one and inserted earlier
RankBelow(g, i) ==
    Cardinality({j \in DOMAIN g.assignments :
        \/ RLt(PrimaryScore(g.assignments[j]), PrimaryScore(g.assignments[i]))
        \/ /\ PrimaryScore(g.assignments[j]) = PrimaryScore(g.assignments[i])
           /\ j < i})

\* the ids of the assignments in the list
IdsOf(assignments) == {assignments[i].id : i \in DOMAIN assignments}

\* the group g with only the assignments whose ids are in keep, and no drops
Keeping(g, keep) ==
    [g EXCEPT !.num_drops = 0,
              !.assignments = SelectSeq(g.assignments, LAMBDA a : a.id \in keep)]

RECURSIVE SumOfFractions(_, _)
SumOfFractions(assignments, i) ==
    IF i > Len(assignments) THEN R(0)
    ELSE RAdd(RDiv(assignments[i].score, assignments[i].upper),
              SumOfFractions(assignments, i + 1))

\* C15: get_summary() of an uncurved group with at least one assignment
\* returns as fraction score the arithmetic mean of the fractions of the
\* retained assignments: their sum over the number retained.
C15_MeanOfRetained ==
    (group # None /\ ~group[1].curved /\ Len(group[1].assignments) >= 1) =>
        /\ GroupGetSummary(group[1]).err = "none"
        /\ GroupGetSummary(group[1]).summary._percentage =
              RDiv(SumOfFractions(ApplyDrop(group[1]).assignments, 1),
                   R(Len(ApplyDrop(group[1]).assignments)))

\* C15 with the sum in place of the mean: the fraction score of an uncurved
\* group is the sum of the fractions of the retained assignments.
C15_SumOfRetained ==
    (group # None /\ ~group[1].curved /\ Len(group[1].assignments) >= 1) =>
        /\ GroupGetSummary(group[1]).err = "none"
        /\ GroupGetSummary(group[1]).summary._percentage =
              SumOfFractions(ApplyDrop(group[1]).assignments, 1)

\* the fraction score get_summary() returns for g made with num_drops
ScoreWithDrops(g, num_drops) ==
    GroupGetSummary([g EXCEPT !.num_drops = num_drops]).summary._percentage

\* C16: for an uncurved group of n assignments and 0 <= j < k < n, the score
\* of get_summary() with num_drops = k is not lower than with num_drops = j.
C16_DropMonotone ==
    (group # None /\ ~group[1].curved) =>
        \A j, k \in 0..(Len(group[1].assignments) - 1) :
            j < k => RLe(ScoreWithDrops(group[1], j), ScoreWithDrops(group[1], k))

\* the curved-only fields of the summary are all there
AllPresent(summary) ==
    summary.zscore # None /\ summary._mu # None /\ summary._sigma # None

\* the curved-only fields of the summary are all missing
AllAbsent(summary) ==
    summary.zscore = None /\ summary._mu = None /\ summary._sigma = None

\* the summary r of an entity has its curved-only fields all present if the
\* entity is curved, all absent if it is not
CurvedFieldsTogether(r, curved) ==
    r.err = "none" =>
        IF curved THEN AllPresent(r.summary) ELSE AllAbsent(r.summary)

\* C17: the Summary that get_summary() returns for an Assignment, an
\* AssignmentGroup or a Course has zscore, _mu and _sigma (and with them the
\* display mu and sigma) all present when the entity is curved, whatever its
\* values, and all absent when it is not.
C17_CurvedFieldsTogether ==
    /\ asg # None =>
          CurvedFieldsTogether(AssignmentGetSummary(asg[1]), asg[1].curved)
    /\ group # None =>
          CurvedFieldsTogether(GroupGetSummary(group[1]), group[1].curved)
    /\ course # None =>
          \A order \in Orders(course.components) :
             CurvedFieldsTogether(CourseGetSummary(course, order),
                                  \E id \in Keys(course.components) :
                                      course.components[id].curved)

\* C17 where no z-score is 0 and no uncurved assignment was given a mean or
\* a standard deviation or was clobbered: there the fields of an
\* assignment's summary are all present or all absent.
C17_AssignmentNonzero ==
    (/\ asg # None
     /\ asg[1].curved => asg[1].zscore # R(0)
     /\ ~asg[1].curved =>
           (asg[1].mu = None /\ asg[1].sigma = None /\ ~asg[1].clobbered))
    => CurvedFieldsTogether(AssignmentGetSummary(asg[1]), asg[1].curved)

(***************************************************************************)
(* get_detail of a group, a course and a profile, and the calls of         *)
(* get_summary and get_detail on what a profile holds: the profile, its    *)
(* courses and the groups of its courses, each of them empty at first.     *)
(* Here plast also tells what the call was made on and what it returned.   *)
(***************************************************************************)
\* what get_detail raised, or the list it returned
DRaise(e, msg) == [err |-> e, msg |-> msg, detail |-> <<>>]
DOk(detail)    == [err |-> "none", msg |-> "", detail |-> detail]

\* the entry of get_detail from the call r of get_summary: the fields of the
\* summary, or error_message = str(e) when it raised e
WithSummary(entry, r) ==
    [fields |-> entry, error |-> r.err, error_message |-> r.msg, summary |-> r.summary]

\* the body of the loop of AssignmentGroup.get_detail
AssignmentDetail(a) ==
    WithSummary([id |-> a.id, name |-> a.name], AssignmentGetSummary(a))

\* AssignmentGroup.get_detail
GroupGetDetail(g) ==
    IF Len(g.assignments) = 0
    THEN DRaise("AssertionError", "No assignments in this group.")
    ELSE DOk([i \in DOMAIN g.assignments |-> AssignmentDetail(g.assignments[i])])

\* list.sort(key=...): the entry with the least key first, the earlier first
\* among equals
RECURSIVE SortByKey(_, _)
SortByKey(detail, keys) ==
    IF detail = <<>> THEN <<>>
    ELSE <<detail[ArgMin(keys)]>>
         \o SortByKey(RemoveAt(detail, ArgMin(keys)), RemoveAt(keys, ArgMin(keys)))

\* the body of the loop of Course.get_detail: the info without its object
ComponentDetail(id, info) ==
    WithSummary([id |-> id, curved |-> info.curved, weight |-> info.weight,
                 grouped |-> info.grouped, name |-> info.object.name],
                ComponentGetSummary(info.object))

\* detail.sort(key=weight, reverse=True)
SortByWeight(detail) ==
    SortByKey(detail, [i \in DOMAIN detail |-> RSub(R(0), detail[i].fields.weight)])

\* a get_detail that returns the empty list for a course without components
CourseGetDetailNoCheck(c, order) ==
    DOk(SortByWeight([i \in DOMAIN order |-> ComponentDetail(order[i], c.components[order[i]])]))

\* a get_detail without the try: the first get_summary that raises ends it
CourseGetDetailUncaught(c, order) ==
    IF Len(order) = 0 THEN DRaise("AssertionError", "No components yet!")
    ELSE IF \E i \in DOMAIN order :
               ComponentGetSummary(c.components[order[i]].object).err # "none"
    THEN DRaise("AssertionError", "")
    ELSE DOk(SortByWeight([i \in DOMAIN order |->
                              ComponentDetail(order[i], c.components[order[i]])]))

\* Course.get_detail, the dict being iterated in the given order of its keys
CourseGetDetail(c, order) ==
    IF Len(order) = 0 THEN DRaise("AssertionError", "No components yet!")
    ELSE DOk(SortByWeight([i \in DOMAIN order |->
                              ComponentDetail(order[i], c.components[order[i]])]))

\* status_ordering of Profile.get_detail
StatusOrdering(status) ==
    CASE status = "In Progress" -> 0
      [] status = "Other"       -> 1
      [] status = "Completed"   -> 2

\* the body of the loop of Profile.get_detail, the components of the course
\* being iterated in the given order
CourseDetail(id, c, order) ==
    WithSummary([id |-> id, name |-> c.name, status |-> c.status],
                CourseGetSummary(c, order))

\* detail.sort(key=status_ordering[status]): a status that is no key of
\* status_ordering raises KeyError
SortByStatus(detail) ==
    IF \E i \in DOMAIN detail : detail[i].fields.status \notin AllowedStatus
    THEN DRaise("KeyError", "")
    ELSE DOk(SortByKey(detail,
                       [i \in DOMAIN detail |-> R(StatusOrdering(detail[i].fields.status))]))

\* Profile.get_detail, the dict of the courses being iterated in the given
\* order and the components of the course id in the order orders[id]
ProfileGetDetail(courses, order, orders) ==
    IF Len(order) = 0 THEN DRaise("AssertionError", "No courses yet!")
    ELSE SortByStatus([i \in DOMAIN order |->
                          CourseDetail(order[i], courses[order[i]], orders[order[i]])])

\* the orders in which the courses of a profile can be iterated
CourseOrders == {s \in UNION {[1..n -> CourseIds] : n \in 0..MaxCourses} : Distinct(s)}

\* the orders in which the components of a course of a profile can be iterated
ComponentOrders == {s \in UNION {[1..n -> ComponentIds] : n \in 0..MaxKey} : Distinct(s)}

\* the call op on the object named by on returned or raised r and left the
\* profile as it was
Asked(op, on, r) ==
    /\ plast' = [op |-> op, err |-> r.err, calls |-> plast.calls + 1, on |-> on, result |-> r]
    /\ UNCHANGED profile

\* profile.get_detail()
DoProfileGetDetail(order, orders) ==
    /\ MayCall
    /\ Range(order) = Keys(profile)
    /\ \A cid \in CourseIds :
          Range(orders[cid]) = IF cid \in Keys(profile) THEN Keys(profile[cid].components) ELSE {}
    /\ Asked("Profile.get_detail", <<>>, ProfileGetDetail(profile, order, orders))
    /\ UNCHANGED <<asgVars, courseVars, groupVars, idVars, loopVars>>

\* profile[cid].get_summary()
DoCourseGetSummary(cid, order) ==
    /\ MayCall
    /\ cid \in Keys(profile)
    /\ Range(order) = Keys(profile[cid].components)
    /\ Asked("Course.get_summary", <<cid>>, CourseGetSummary(profile[cid], order))
    /\ UNCHANGED <<asgVars, courseVars, groupVars, idVars, loopVars>>

\* profile[cid].get_detail()
DoCourseGetDetail(cid, order) ==
    /\ MayCall
    /\ cid \in Keys(profile)
    /\ Range(order) = Keys(profile[cid].components)
    /\ Asked("Course.get_detail", <<cid>>, CourseGetDetail(profile[cid], order))
    /\ UNCHANGED <<asgVars, courseVars, groupVars, idVars, loopVars>>

\* profile[cid].get_components()[gid]["object"].get_summary(), of a group
DoComponentGetSummary(cid, gid) ==
    /\ MayCall
    /\ cid \in Keys(profile)
    /\ gid \in Keys(profile[cid].components)
    /\ IsGroup(profile[cid].components[gid].object)
    /\ Asked("AssignmentGroup.get_summary", <<cid, gid>>,
             GroupGetSummary(profile[cid].components[gid].object))
    /\ UNCHANGED <<asgVars, courseVars, groupVars, idVars, loopVars>>

\* profile[cid].get_components()[gid]["object"].get_detail(), of a group
DoComponentGetDetail(cid, gid) ==
    /\ MayCall
    /\ cid \in Keys(profile)
    /\ gid \in Keys(profile[cid].components)
    /\ IsGroup(profile[cid].components[gid].object)
    /\ Asked("AssignmentGroup.get_detail", <<cid, gid>>,
             GroupGetDetail(profile[cid].components[gid].object))
    /\ UNCHANGED <<asgVars, courseVars, groupVars, idVars, loopVars>>

NextDetail ==
    \/ \E id \in CourseIds : DoAddCourse(id)
    \/ \E cid \in CourseIds, status \in Statuses : DoSetStatus(cid, status)
    \/ \E cid \in CourseIds, in \in UncurvedSingleInputs, id \in ComponentIds :
          DoProfileAddUncurvedSingle(cid, in, id)
    \/ \E cid \in CourseIds, in \in GroupInputs, id \in ComponentIds :
          DoProfileAddCurvedGroup(cid, in, id)
    \/ \E cid \in CourseIds, in \in GroupInputs, id \in ComponentIds :
          DoProfileAddUncurvedGroup(cid, in, id)
    \/ \E cid \in CourseIds, gid \in ComponentIds, id \in AssignmentIds :
          DoGroupAddAssignment(cid, gid, id)
    \/ \E order \in CourseOrders, orders \in [CourseIds -> ComponentOrders] :
          DoProfileGetDetail(order, orders)
    \/ \E cid \in CourseIds, order \in ComponentOrders : DoCourseGetSummary(cid, order)
    \/ \E cid \in CourseIds, order \in ComponentOrders : DoCourseGetDetail(cid, order)
    \/ \E cid \in CourseIds, gid \in ComponentIds : DoComponentGetSummary(cid, gid)
    \/ \E cid \in CourseIds, gid \in ComponentIds : DoComponentGetDetail(cid, gid)

SpecDetail == Init /\ [][NextDetail]_vars

\* the calls of get_summary and get_detail
Aggregations ==
    {"Profile.get_detail", "Course.get_summary", "Course.get_detail",
     "AssignmentGroup.get_summary", "AssignmentGroup.get_detail"}

\* the object the call told by l is made on has no member: the profile no
\* course, the course no component, the group no assignment
OnEmpty(courses, l) ==
    CASE l.op = "Profile.get_detail" -> Keys(courses) = {}
      [] l.op \in {"Course.get_summary", "Course.get_detail"} ->
            Keys(courses[l.on[1]].components) = {}
      [] OTHER -> Len(courses[l.on[1]].components[l.on[2]].object.assignments) = 0

\* C18: every call of AssignmentGroup.get_summary or get_detail on a group
\* with zero assignments, of Course.get_summary or get_detail on a course
\* with zero components, and of Profile.get_detail on a profile with zero
\* courses raises (AssertionError) instead of returning a result, and leaves
\* the profile, its courses and their groups as they were.
C18_EmptyRaises ==
    [][(plast'.op \in Aggregations /\ OnEmpty(profile, plast'))
          => (/\ plast'.err = "AssertionError"
              /\ plast'.result.err = "AssertionError"
              /\ profile' = profile)]_vars

\* get_detail has just raised on a group without assignments, in a profile of
\* MaxCourses courses one of which has no component
C18_Witness ==
    /\ plast.op = "AssignmentGroup.get_detail"
    /\ OnEmpty(profile, plast)
    /\ plast.err = "AssertionError"
    /\ Keys(profile) = CourseIds
    /\ \E cid \in Keys(profile) : Keys(profile[cid].components) = {}

(***************************************************************************)
(* The letter grade of a course: singles with scores on, between, above    *)
(* and below the uncurved boundaries, with weights 1 and 1/2, are added    *)
(* and removed, and the summary is asked for.                              *)
(***************************************************************************)
\* (weight, score) of the uncurved singles that are added, the upper being
\* 100: fractions 0.97, 0.9, 0.89, 0.6, 0.59, 0 and -0.1
GradedUncurvedInputs ==
    {<<w, R(s)>> : w \in {R(1), Half}, s \in {97, 90, 89, 60, 59, 0, -10}}

\* (weight, score, mu, sigma) of the curved single that is added
GradedCurvedInputs == {<<Half, R(60), R(50), R(10)>>}

NextGrade ==
    \/ \E in \in GradedUncurvedInputs, id \in IDs : DoAddUncurvedSingle(in, id)
    \/ \E in \in GradedCurvedInputs, id \in IDs : DoAddCurvedSingle(in, id)
    \/ \E id \in IDs : DoRemoveComponent(id)
    \/ \E order \in KeyOrders : DoGetSummary(order)

SpecGrade == Init /\ [][NextGrade]_vars

\* the letter of the fraction p: the first of A+ .. D- whose threshold is at
\* most p, and F for every p below 0.6
LetterOf(p) ==
    IF RLe(Rat(97, 100), p) THEN "A+"
    ELSE IF RLe(Rat(93, 100), p) THEN "A"
    ELSE IF RLe(Rat(90, 100), p) THEN "A-"
    ELSE IF RLe(Rat(87, 100), p) THEN "B+"
    ELSE IF RLe(Rat(83, 100), p) THEN "B"
    ELSE IF RLe(Rat(80, 100), p) THEN "B-"
    ELSE IF RLe(Rat(77, 100), p) THEN "C+"
    ELSE IF RLe(Rat(73, 100), p) THEN "C"
    ELSE IF RLe(Rat(70, 100), p) THEN "C-"
    ELSE IF RLe(Rat(67, 100), p) THEN "D+"
    ELSE IF RLe(Rat(63, 100), p) THEN "D"
    ELSE IF RLe(Rat(60, 100), p) THEN "D-"
    ELSE "F"

\* the course holds no curved component
NoCurvedComponent(c) == \A id \in Keys(c.components) : ~c.components[id].curved

\* C19: when get_summary of a course with no curved component returns, its
\* grade is the first letter in the order A+, A, A-, B+, B, B-, C+, C, C-,
\* D+, D, D-, F whose uncurved threshold is at most the final fraction score
\* (_percentage), and F for every score below the threshold of D-, negative
\* scores included.
C19_UncurvedGrade ==
    (Returned("get_summary") /\ NoCurvedComponent(course))
        => /\ ~last.summary.class_curved
           /\ last.summary.grade = <<LetterOf(last.summary._percentage)>>

\* the summary of a course of uncurved singles with a negative final score
\* has the grade F
C19_Witness ==
    /\ Returned("get_summary")
    /\ NoCurvedComponent(course)
    /\ RLt(last.summary._percentage, R(0))
    /\ last.summary.grade = <<"F">>

\* the summary of a course of one uncurved single of weight 1 and fraction
\* 0.9 has the grade A-
C19_ExampleAMinus ==
    /\ Returned("get_summary")
    /\ Cardinality(Keys(course.components)) = 1
    /\ \A id \in Keys(course.components) :
          /\ course.components[id].weight = R(1)
          /\ ~course.components[id].curved
    /\ last.summary._percentage = Rat(9, 10)
    /\ last.summary.grade = <<"A-">>

\* C20: whenever Course.get_summary returns, is_final is true iff the weights
\* of the components sum to 1.0 (the sums of the weights that are given here
\* are exact: the tolerance of isclose separates none of them from 1.0), and
\* false whenever they sum to less than 1.0.
C20_IsFinal ==
    Returned("get_summary")
        => /\ last.summary.is_final
                <=> (/\ RLe(WeightOf(course, Keys(course.components)), R(1))
                     /\ RLe(R(1), WeightOf(course, Keys(course.components))))
           /\ RLt(WeightOf(course, Keys(course.components)), R(1))
                => ~last.summary.is_final

\* get_summary has returned is_final = True for a course of several
\* components
C20_Witness ==
    /\ Returned("get_summary")
    /\ Cardinality(Keys(course.components)) > 1
    /\ last.summary.is_final

\* get_summary has returned is_final = False for a course whose weights sum
\* to 3/4
C20_NotFinalReached ==
    /\ Returned("get_summary")
    /\ WeightOf(course, Keys(course.components)) = Rat(3, 4)
    /\ ~last.summary.is_final

(***************************************************************************)
(* Correlations: courses are created with a correlation and curved groups  *)
(* are added with one of their own, inside and outside [0, 1].  Here last  *)
(* also tells the correlation the call was given.                          *)
(***************************************************************************)
\* the correlations that are given: the ends of [0, 1], a value inside and
\* one on either side
CorrInputs == {Rat(-1, 2), R(0), Rat(3, 5), R(1), Rat(3, 2)}

\* the weights of the groups that are added
CorrWeights == {Half, Rat(1, 4)}

\* the call r with the correlation corr has been made
CalledWithCorr(op, r, corr) == [op |-> op, err |-> r.err, flag |-> FALSE, corr |-> corr]

\* course = Course(corr): the name keeps the course it had when the
\* constructor raises
DoNewCourse(corr) ==
    /\ course' = IF CourseInit(corr, None, 1).err = "none"
                 THEN CourseInit(corr, None, 1).course ELSE course
    /\ orig' = IF CourseInit(corr, None, 1).err = "none" THEN EmptyDict ELSE orig
    /\ last' = CalledWithCorr("Course", CourseInit(corr, None, 1), corr)
    /\ UNCHANGED <<asgVars, profileVars, groupVars, idVars, loopVars>>

\* course.add_curved_group(weight, name, corr, 0, id)
DoAddCurvedGroupWithCorr(weight, corr, id) ==
    /\ course' = AddCurvedGroup(course, weight, GivenName, corr, 0, id).course
    /\ orig' = OrigAfterAdd(AddCurvedGroup(course, weight, GivenName, corr, 0, id), id)
    /\ last' = CalledWithCorr("add_curved_group",
                              AddCurvedGroup(course, weight, GivenName, corr, 0, id), corr)
    /\ UNCHANGED <<asgVars, profileVars, groupVars, idVars, loopVars>>

NextCorr ==
    \/ \E corr \in CorrInputs : DoNewCourse(corr)
    \/ \E weight \in CorrWeights, corr \in CorrInputs, id \in IDs :
          DoAddCurvedGroupWithCorr(weight, corr, id)
    \/ \E id \in IDs : DoRemoveComponent(id)

SpecCorr == Init /\ [][NextCorr]_vars

\* the correlation is in [0, 1]
ValidCorr(corr) == RLe(R(0), corr) /\ RLe(corr, R(1))

\* C21: a correlation outside [0, 1] is never stored, neither in the course
\* nor in a curved group of it, and the call of Course(corr) or of
\* add_curved_group(.., corr, ..) that was given one raised ValueError.
C21_InvalidCorrRejected ==
    /\ ValidCorr(course.corr)
    /\ \A id \in Keys(course.components) :
          (IsGroup(course.components[id].object) /\ course.components[id].curved)
              => ValidCorr(course.components[id].object.corr)
    /\ ("corr" \in DOMAIN last /\ ~ValidCorr(last.corr)) => last.err = "ValueError"

\* the part of C21 that is about Course(corr): the course never holds a
\* correlation outside [0, 1], and Course(corr) with one raised ValueError
C21_CourseCorrRejected ==
    /\ ValidCorr(course.corr)
    /\ ("corr" \in DOMAIN last /\ last.op = "Course" /\ ~ValidCorr(last.corr))
          => last.err = "ValueError"

(***************************************************************************)
(* A stand-alone Assignment with an upper that is positive, zero or        *)
(* negative: construction, then its summary.                               *)
(***************************************************************************)
UpperSignInputs == {R(100), R(0), R(-100)}

\* a.get_summary()
DoAssignmentGetSummary ==
    /\ asg # None
    /\ hist' = [op |-> "get_summary", err |-> AssignmentGetSummary(asg[1]).err,
                score |-> asg[1].score, upper |-> asg[1].upper, mu |-> asg[1].mu,
                sigma |-> asg[1].sigma, curved |-> asg[1].curved, zscore |-> None]
    /\ UNCHANGED <<asg, courseVars, profileVars, groupVars, idVars, loopVars>>

NextUpper ==
    \/ \E score \in ScoreInputs, upper \in UpperSignInputs, mu \in MuInputs,
          sigma \in SigmaInputs, curved \in BOOLEAN :
          DoConstruct(score, upper, mu, sigma, curved)
    \/ DoAssignmentGetSummary

SpecUpper == InitAssignment /\ [][NextUpper]_vars

\* C22: Assignment(score, None, upper, ...) with upper <= 0 raises, and the
\* upper of every Assignment there is is > 0.
C22_UpperPositive ==
    /\ (hist.op = "construct" /\ RLe(hist.upper, R(0))) => hist.err # "none"
    /\ asg # None => RLt(R(0), asg[1].upper)

\* what happens instead: an assignment with upper = 0 is constructed, and it
\* is its get_summary that raises ZeroDivisionError
C22_ZeroUpperSurfacesLate ==
    (hist.op = "get_summary" /\ asg[1].upper = R(0)) => hist.err = "ZeroDivisionError"

(***************************************************************************)
(* generate_id (utils.py).  The id is made of two readings of the          *)
(* environment: the clock and the address of the object being constructed. *)
(*   clock   the last reading of time(), in whole microseconds             *)
(*   heap    the objects alive: address, id, and the reading of the clock  *)
(*           the id was made of                                            *)
(*   minted  the ids generate_id returned, in the order of the calls       *)
(* The clock does not run backwards, and an object is allocated at the     *)
(* address of no object alive; the address of an object that was freed can *)
(* be given to a new one.                                                  *)
(***************************************************************************)
Addresses == 1..MaxAddress

Clock == 0..MaxClock

\* generate_id(object): ID(str(int(time() * 1000000 + id(object))))
GenerateId(time, address) == ID(time + address)

\* an entity is created without override_id: its constructor reads the
\* clock and the address it was allocated at
DoCreate(time, address) ==
    /\ Len(minted) < MaxMinted
    /\ clock <= time
    /\ \A o \in heap : o.address # address
    /\ clock' = time
    /\ heap' = heap \cup {[address |-> address, id |-> GenerateId(time, address),
                           time |-> time]}
    /\ minted' = Append(minted, GenerateId(time, address))
    /\ UNCHANGED <<asgVars, courseVars, profileVars, groupVars, loopVars>>

\* the entity at the address is removed and its memory freed
DoFree(address) ==
    /\ \E o \in heap : o.address = address
    /\ heap' = {o \in heap : o.address # address}
    /\ UNCHANGED <<clock, minted, asgVars, courseVars, profileVars, groupVars, loopVars>>

NextIds ==
    \/ \E time \in Clock, address \in Addresses : DoCreate(time, address)
    \/ \E address \in Addresses : DoFree(address)

SpecIds == Init /\ [][NextIds]_vars

\* C23: the ids minted by generate_id within one run are pairwise distinct:
\* no id is minted twice, neither for two entities that exist together nor
\* for a new entity after the entity that held it was removed.
C23_IdsDistinct ==
    \A i, j \in DOMAIN minted : i # j => minted[i] # minted[j]

\* what generate_id does give: entities that exist together and were
\* created at the same reading of the clock have different ids
C23_DistinctAtOneReading ==
    \A o1, o2 \in heap : (o1.time = o2.time /\ o1.address # o2.address) => o1.id # o2.id

\* two entities that exist together have the same id
C23_LiveDuplicate ==
    \E o1, o2 \in heap : o1.address # o2.address /\ o1.id = o2.id

(***************************************************************************)
(* The courses of a profile are added, given a status and removed.  Here   *)
(* plast also tells the id remove_course was given.                        *)
(***************************************************************************)
\* what a method of Profile leaves behind: the exception's class (or "none")
\* and the courses after the call
PRaise(e, courses) == [err |-> e, courses |-> courses]
POk(courses)       == [err |-> "none", courses |-> courses]

\* Profile.remove_course: del self.courses[course_id]
ProfileRemoveCourse(courses, course_id) ==
    IF course_id \notin Keys(courses) THEN PRaise("KeyError", courses)
    ELSE POk(Del(courses, course_id))

\* the call r of remove_course(course_id) has been made
CourseRemoved(r, course_id) ==
    /\ profile' = r.courses
    /\ plast' = [op |-> "remove_course", err |-> r.err, calls |-> plast.calls + 1,
                 on |-> course_id]

\* profile.remove_course(course_id)
DoRemoveCourse(course_id) ==
    /\ MayCall
    /\ CourseRemoved(ProfileRemoveCourse(profile, course_id), course_id)
    /\ UNCHANGED <<asgVars, courseVars, groupVars, idVars, loopVars>>

NextCourses ==
    \/ \E id \in CourseIds : DoAddCourse(id)
    \/ \E cid \in CourseIds, status \in Statuses : DoSetStatus(cid, status)
    \/ \E course_id \in CourseIds : DoRemoveCourse(course_id)

SpecCourses == Init /\ [][NextCourses]_vars

\* C24: every call of Profile.remove_course(id) with an id that is no course
\* of the profile raises no error and leaves the courses as they were.
C24_RemoveAbsentNoOp ==
    [][(plast'.op = "remove_course" /\ plast'.on \notin Keys(profile))
          => (plast'.err = "none" /\ profile' = profile)]_vars

\* the part of C24 that holds: the call leaves the courses as they were
C24_RemoveAbsentKeepsCourses ==
    [][(plast'.op = "remove_course" /\ plast'.on \notin Keys(profile))
          => profile' = profile]_vars

\* and a course that is there is removed without an error
C24_RemovePresent ==
    [][(plast'.op = "remove_course" /\ plast'.on \in Keys(profile))
          => (plast'.err = "none" /\ Keys(profile') = Keys(profile) \ {plast'.on})]_vars

\* the entry of the component id in the list detail
EntryOf(detail, id) == detail[CHOOSE i \in DOMAIN detail : detail[i].fields.id = id]

\* the entry is the one get_detail promises for the component under id:
\* its id, weight, flags and name, and either the fields of its summary or
\* the message of the error its get_summary raised
EntryFor(entry, id, info) ==
    /\ entry.fields = [id |-> id, curved |-> info.curved, weight |-> info.weight,
                       grouped |-> info.grouped, name |-> info.object.name]
    /\ IF ComponentGetSummary(info.object).err = "none"
       THEN /\ entry.error = "none"
            /\ entry.summary = ComponentGetSummary(info.object).summary
       ELSE /\ entry.error = ComponentGetSummary(info.object).err
            /\ entry.error_message = ComponentGetSummary(info.object).msg
            /\ entry.summary = None

\* C25: Course.get_detail() on a course with at least one component does not
\* raise; the list it returns has exactly one entry per component; the entry
\* of a component whose get_summary() raises carries the error message, and
\* the entries of the other components carry their summaries.
C25_DetailPerComponent ==
    (plast.op = "Course.get_detail" /\ Keys(profile[plast.on[1]].components) # {})
        => /\ plast.err = "none"
           /\ Len(plast.result.detail) = Cardinality(Keys(profile[plast.on[1]].components))
           /\ \A id \in Keys(profile[plast.on[1]].components) :
                 /\ \E i \in DOMAIN plast.result.detail : plast.result.detail[i].fields.id = id
                 /\ EntryFor(EntryOf(plast.result.detail, id), id,
                             profile[plast.on[1]].components[id])

\* get_detail has returned the entries of a group without assignments, with
\* its error message, and of a single, with its summary
C25_Witness ==
    /\ plast.op = "Course.get_detail"
    /\ plast.err = "none"
    /\ Len(plast.result.detail) = 2
    /\ \E i, j \in DOMAIN plast.result.detail :
          /\ plast.result.detail[i].error = "AssertionError"
          /\ plast.result.detail[i].error_message = "No assignments in this group."
          /\ plast.result.detail[i].fields.grouped
          /\ plast.result.detail[j].error = "none"
          /\ plast.result.detail[j].summary # None
          /\ ~plast.result.detail[j].fields.grouped

\* the fields of an assignment that a clobber does not write
Unclobbered(a) ==
    [id |-> a.id, name |-> a.name, upper |-> a.upper, curved |-> a.curved,
     mu |-> a.mu, sigma |-> a.sigma, weight |-> a.weight, class |-> a.class]

\* the step is a call of apply_clobber that returned, made when no clobber
\* was active
CleanClobber ==
    /\ last'.op = "apply_clobber"
    /\ last'.err = "none"
    /\ course.clobber_info = None

\* C26: a call of Course.apply_clobber that returns, made when no clobber is
\* active, changes only the targets recorded in clobber_info.targets: the
\* source (score, z-score, clobbered flag and all), every component that is
\* not recorded, requested or not, the keys of the component map and every
\* weight are as before, and so is every field of the course but
\* clobber_info; of a recorded target only the score, the z-score, the flag
\* and the snapshot change.
C26_ClobberFrame ==
    [][CleanClobber
          => /\ course'.clobber_info # None
             /\ [course' EXCEPT !.components = course.components,
                                !.clobber_info = None] = course
             /\ Keys(course'.components) = Keys(course.components)
             /\ course'.clobber_info[1].source \in Keys(course.components)
             /\ course'.components[course'.clobber_info[1].source]
                   = course.components[course'.clobber_info[1].source]
             /\ \A id \in Keys(course.components) :
                   /\ course'.components[id].weight = course.components[id].weight
                   /\ course'.components[id].curved = course.components[id].curved
                   /\ course'.components[id].grouped = course.components[id].grouped
                   /\ id \notin Range(course'.clobber_info[1].targets)
                         => course'.components[id] = course.components[id]
                   /\ id \in Range(course'.clobber_info[1].targets)
                         => Unclobbered(course'.components[id].object)
                               = Unclobbered(course.components[id].object)]_vars

\* apply_clobber has returned with one target recorded, in a course of MaxId
\* singles of which the recorded one, and no other, is clobbered
C26_Witness ==
    /\ last.op = "apply_clobber"
    /\ last.err = "none"
    /\ course.clobber_info # None
    /\ Len(course.clobber_info[1].targets) = 1
    /\ Keys(course.components) = IDs
    /\ \A id \in Keys(course.components) :
          /\ ~IsGroup(course.components[id].object)
          /\ course.components[id].object.clobbered
                <=> id \in Range(course.clobber_info[1].targets)

\* the component is a single assignment in the clobbered state
ClobberedSingle(info) == ~IsGroup(info.object) /\ info.object.clobbered

\* C27: after any sequence of add_* (also over an id that is there),
\* remove_component, apply_clobber and revert_clobber: when clobber_info is
\* present, its source and each of its targets is a key of the component
\* map, and a single component is clobbered iff its id is one of the
\* targets; when clobber_info is absent, no component is clobbered.
C27_ClobberInfoConsistent ==
    IF course.clobber_info # None
    THEN /\ course.clobber_info[1].source \in Keys(course.components)
         /\ Range(course.clobber_info[1].targets) \subseteq Keys(course.components)
         /\ \A id \in Keys(course.components) :
               ~IsGroup(course.components[id].object)
                  => (course.components[id].object.clobbered
                         <=> id \in Range(course.clobber_info[1].targets))
    ELSE \A id \in Keys(course.components) : ~ClobberedSingle(course.components[id])

\* the parts of C27 that hold: the ids clobber_info names are keys of the
\* component map, every single that is clobbered is one of its targets, and
\* without clobber_info no component is clobbered
C27_ClobberedAreTargets ==
    /\ course.clobber_info # None
          => /\ course.clobber_info[1].source \in Keys(course.components)
             /\ Range(course.clobber_info[1].targets) \subseteq Keys(course.components)
    /\ \A id \in Keys(course.components) :
          ClobberedSingle(course.components[id])
             => /\ course.clobber_info # None
                /\ id \in Range(course.clobber_info[1].targets)

(***************************************************************************)
(* The form helpers of the web application (app_utils.py): a single        *)
(* assignment or an assignment group is created from a submitted form, or  *)
(* the component under component_id is edited through one.                 *)
(* A form is the record of its fields.  The text of a field is the number  *)
(* it spells, NoNumber for a text that spells none, None for a field left  *)
(* out; curved is the text itself.  An optional id is <<>> or <<id>>.      *)
(* Here last also tells the form, the component_id and what the helper     *)
(* returned.                                                               *)
(***************************************************************************)
NoNumber == <<"abc">>

\* float(text) and int(text) return: the text spells a number
Spells(text) == Len(text) = 2

\* what a validate_* returns: (is_valid, error)
Invalid(error) == [valid |-> FALSE, error |-> error]
Valid          == [valid |-> TRUE, error |-> ""]

\* the validation of mu and sigma of validate_single_assignment
ValidateStats(form) ==
    IF form.mu = None THEN Invalid("missing mu")
    ELSE IF ~Spells(form.mu) THEN Invalid("invalid mu")
    ELSE IF form.sigma = None THEN Invalid("missing sigma")
    ELSE IF ~Spells(form.sigma) THEN Invalid("invalid sigma")
    ELSE Valid

\* app_utils.validate_single_assignment
ValidateSingleAssignment(form, curved) ==
    IF ~Spells(form.weight) THEN Invalid("invalid weight")
    ELSE IF RLt(R(1), form.weight) \/ RLt(form.weight, R(0)) THEN Invalid("invalid weight")
    ELSE IF ~Spells(form.score) THEN Invalid("invalid score")
    ELSE IF ~Spells(form.upper) THEN Invalid("invalid upper")
    ELSE IF curved THEN ValidateStats(form)
    ELSE Valid

\* app_utils.validate_assignment_group
ValidateAssignmentGroup(form) ==
    IF ~Spells(form.weight) THEN Invalid("invalid weight")
    ELSE IF RLt(R(1), form.weight) \/ RLt(form.weight, R(0)) THEN Invalid("invalid weight")
    ELSE IF ~Spells(form.corr) THEN Invalid("invalid corr")
    ELSE IF RLt(form.corr, R(0)) \/ RLt(R(1), form.corr) THEN Invalid("invalid corr")
    ELSE IF ~Spells(form.num_drops) THEN Invalid("invalid num_drops")
    ELSE IF form.num_drops[1] < 0 THEN Invalid("invalid num_drops")
    ELSE Valid

\* what a create_*_from_form leaves behind: the exception it raised (or
\* "none"), the error message it returned (None when it returned None or
\* raised), and the course after the call
FormResult(err, returned, c) == [err |-> err, returned |-> returned, course |-> c]

\* the end of create_single_assignment_from_form: add_curved_single or
\* add_uncurved_single on the course c with the values of the form
AddSingleFromForm(c, form, id) ==
    IF form.curved = "Curved"
    THEN AddCurvedSingle(c, form.weight, form.score, form.name, form.upper,
                         form.mu, form.sigma, id)
    ELSE AddUncurvedSingle(c, form.weight, form.score, form.name, form.upper, id)

\* create_single_assignment_from_form once the form is valid: r is the call
\* of remove_component, when component_id is given
SingleFromValidForm(r, form, id) ==
    IF r.err # "none" THEN FormResult(r.err, None, r.course)
    ELSE FormResult(AddSingleFromForm(r.course, form, id).err, None,
                    AddSingleFromForm(r.course, form, id).course)

\* app_utils.create_single_assignment_from_form; new_id is the id that
\* generate_id gives when component_id is None
CreateSingleAssignmentFromForm(c, form, component_id, new_id) ==
    IF ~ValidateSingleAssignment(form, form.curved = "Curved").valid
    THEN FormResult("none", <<ValidateSingleAssignment(form, form.curved = "Curved").error>>, c)
    ELSE IF component_id # None
    THEN SingleFromValidForm(CourseRemoveComponent(c, component_id[1]), form,
                             component_id[1])
    ELSE SingleFromValidForm(COk(c), form, new_id)

\* add_curved_group or add_uncurved_group with the values of the form and no
\* override_id
AddGroupFromForm(c, form, new_id) ==
    IF form.curved = "Curved"
    THEN AddCurvedGroup(c, form.weight, form.name, form.corr, form.num_drops[1], new_id)
    ELSE AddUncurvedGroup(c, form.weight, form.name, form.corr, form.num_drops[1], new_id)

\* the edit in place: the four attributes of the object are assigned
EditedInPlace(obj, form) ==
    [name |-> form.name, weight |-> form.weight, corr |-> form.corr,
     num_drops |-> form.num_drops[1]] @@ obj

\* the group is trashed and a new one is built, r being the call of
\* remove_component
Rebuilt(r, form, new_id) ==
    IF r.err # "none" THEN FormResult(r.err, None, r.course)
    ELSE FormResult(AddGroupFromForm(r.course, form, new_id).err, None,
                    AddGroupFromForm(r.course, form, new_id).course)

\* create_assignment_group_from_form with a component_id, the form valid
EditGroupFromForm(c, form, id, new_id) ==
    IF id \notin Keys(c.components) THEN FormResult("KeyError", None, c)
    ELSE IF (form.curved = "Curved") # c.components[id].object.curved
    THEN Rebuilt(CourseRemoveComponent(c, id), form, new_id)
    ELSE FormResult("none", None,
                    [c EXCEPT !.components[id].object = EditedInPlace(@, form)])

\* app_utils.create_assignment_group_from_form
CreateAssignmentGroupFromForm(c, form, component_id, new_id) ==
    IF ~ValidateAssignmentGroup(form).valid
    THEN FormResult("none", <<ValidateAssignmentGroup(form).error>>, c)
    ELSE IF component_id # None
    THEN EditGroupFromForm(c, form, component_id[1], new_id)
    ELSE Rebuilt(COk(c), form, new_id)

\* the forms of a single assignment that are submitted: a weight that is no
\* number, 0 and 1/2, a sigma of 10 and of 0
SingleForms ==
    [name : {GivenName}, curved : {"Curved", "Uncurved"},
     weight : {NoNumber, R(0), Half}, score : {R(60)}, upper : {R(100)},
     mu : {R(50)}, sigma : {R(10), R(0)}]

\* the forms of an assignment group that are submitted: a weight that is
\* no number, 0, 1/4 and 1/2
GroupForms ==
    [name : {GivenName}, curved : {"Curved", "Uncurved"},
     weight : {NoNumber, R(0), Rat(1, 4), Half}, corr : {Rat(3, 5)},
     num_drops : {<<0, 1>>}]

\* the component_id a helper is given
ComponentIdInputs == {None} \cup {<<id>> : id \in ComponentIds}

\* the ids generate_id can give
MintedIds == 1..(MaxKey + 1)

\* orig of a course on which no clobber was applied
OrigOf(c) ==
    [id \in {k \in Keys(c.components) : ~IsGroup(c.components[k].object)} |->
        [score  |-> c.components[id].object.score,
         zscore |-> c.components[id].object.zscore]]

\* the call r of the helper op has been made
FormSubmitted(op, r, form, component_id) ==
    /\ course' = r.course
    /\ orig' = OrigOf(r.course)
    /\ last' = [op |-> op, err |-> r.err, flag |-> FALSE, returned |-> r.returned,
                form |-> form, component_id |-> component_id]

\* the id that generate_id gives is the key of no component, and a helper
\* that adds is called while there is room for a component
MayMint(component_id, new_id) ==
    /\ new_id \notin Keys(course.components)
    /\ component_id = None => Cardinality(Keys(course.components)) < MaxKey

\* create_single_assignment_from_form(course, form, component_id)
DoSingleForm(form, component_id, new_id) ==
    /\ MayMint(component_id, new_id)
    /\ FormSubmitted("create_single_assignment_from_form",
                     CreateSingleAssignmentFromForm(course, form, component_id, new_id),
                     form, component_id)
    /\ UNCHANGED <<asgVars, profileVars, groupVars, idVars, loopVars>>

\* create_assignment_group_from_form(course, form, component_id)
DoGroupForm(form, component_id, new_id) ==
    /\ MayMint(component_id, new_id)
    /\ FormSubmitted("create_assignment_group_from_form",
                     CreateAssignmentGroupFromForm(course, form, component_id, new_id),
                     form, component_id)
    /\ UNCHANGED <<asgVars, profileVars, groupVars, idVars, loopVars>>

NextForms ==
    \/ \E form \in SingleForms, component_id \in ComponentIdInputs, new_id \in MintedIds :
          DoSingleForm(form, component_id, new_id)
    \/ \E form \in GroupForms, component_id \in ComponentIdInputs, new_id \in MintedIds :
          DoGroupForm(form, component_id, new_id)
    \/ \E id \in MintedIds : DoRemoveComponent(id)

SpecForms == Init /\ [][NextForms]_vars

\* C28: for every component of a course, the weight in the course's
\* component metadata equals the weight the component object holds, after
\* any sequence of add_*, remove_component and edits through the two form
\* helpers.
C28_WeightsAgree ==
    \A id \in Keys(course.components) :
        course.components[id].weight = course.components[id].object.weight

\* what does hold: the two weights agree until a component is edited in
\* place through create_assignment_group_from_form
C28_WeightsAgreeUnlessEdited ==
    [][(C28_WeightsAgree
        /\ ~(/\ last'.op = "create_assignment_group_from_form"
             /\ last'.component_id # None
             /\ last'.err = "none" /\ last'.returned = None))
          => C28_WeightsAgree']_vars

\* the step is an edit of the component that is there under component_id
\* through create_single_assignment_from_form
SingleEdited ==
    /\ last'.op = "create_single_assignment_from_form"
    /\ last'.component_id # None
    /\ last'.component_id[1] \in Keys(course.components)

\* the component is the single assignment the form describes
BuiltFromForm(info, form, id) ==
    /\ ~IsGroup(info.object)
    /\ info.curved = (form.curved = "Curved")
    /\ info.weight = form.weight
    /\ info.object.id = id
    /\ info.object.name = form.name
    /\ info.object.score = form.score
    /\ info.object.upper = form.upper

\* C29: an edit of a component through
\* create_single_assignment_from_form(course, form, component_id) never
\* loses the component: either the call completes and the course holds,
\* under component_id, the single assignment built from the form, or the
\* call returns an error message or raises and the course holds the
\* original component under component_id.
C29_EditKeepsComponent ==
    [][SingleEdited
          => \/ /\ last'.err = "none"
                /\ last'.returned = None
                /\ last'.component_id[1] \in Keys(course'.components)
                /\ BuiltFromForm(course'.components[last'.component_id[1]],
                                 last'.form, last'.component_id[1])
             \/ /\ last'.err # "none" \/ last'.returned # None
                /\ last'.component_id[1] \in Keys(course'.components)
                /\ course'.components[last'.component_id[1]]
                      = course.components[last'.component_id[1]]]_vars

\* what does hold: a call that completes has replaced the component by the
\* one built from the form, and a call that returns an error message has
\* left the course as it was
C29_CompletesOrReports ==
    [][(SingleEdited /\ last'.err = "none")
          => IF last'.returned = None
             THEN /\ last'.component_id[1] \in Keys(course'.components)
                  /\ BuiltFromForm(course'.components[last'.component_id[1]],
                                   last'.form, last'.component_id[1])
             ELSE course' = course]_vars

\* the component is lost: the edit raised and nothing is left under
\* component_id
C29_ComponentLost ==
    /\ last.op = "create_single_assignment_from_form"
    /\ last.component_id # None
    /\ last.err # "none"
    /\ last.component_id[1] \notin Keys(course.components)

(***************************************************************************)
(* Course.apply_clobber with its while loop taken one round at a time.     *)
(*   loop  the call in its loop: the capacity left, the ids and z-scores   *)
(*         of the targets still in the list, the ids clobbered so far, and *)
(*         the source, the targets and the capacity the call was given     *)
(* Curved singles are added while no call is in its loop; a call that      *)
(* passes the checks enters the loop, and leaves it by recording           *)
(* clobber_info.                                                           *)
(***************************************************************************)
\* the capacities apply_clobber is given: the default -1, another negative
\* one, 0, 1 and one above the length of every target list
LoopCapacities == {-2, -1, 0, 1, MaxTargets + 1}

\* (weight, score, mu, sigma) of the curved singles a call in its loop
\* works on: one below the mean and one above it
LoopSingleInputs == {<<Half, R(40), R(50), R(10)>>, <<Half, R(60), R(50), R(10)>>}

\* course.add_curved_single(weight, score, name, 100, mu, sigma, id), no
\* call being in its loop
DoAddTarget(in, id) ==
    /\ loop.pc = "idle"
    /\ Added("add_curved_single",
             AddCurvedSingle(course, in[1], in[2], GivenName, R(100), in[3], in[4], id),
             in[1], id)
    /\ UNCHANGED <<asgVars, profileVars, groupVars, idVars, loopVars>>

\* the message of the check of Course.apply_clobber that fails first: ""
\* when all pass
ClobberChecks(c, source, targets) ==
    IF \E i \in DOMAIN targets : targets[i] = source THEN "source in targets"
    ELSE IF CheckId(c, source, "source") # "" THEN CheckId(c, source, "source")
    ELSE CheckTargets(c, targets)

\* the loop as the call enters it on the course c
EnterLoop(c, source, targets, capacity) ==
    [pc         |-> "loop",
     capacity   |-> IF capacity = -1 THEN Len(targets) ELSE capacity,
     targets    |-> targets,
     z_targets  |-> [i \in DOMAIN targets |-> c.components[targets[i]].object.zscore],
     z_source   |-> c.components[source].object.zscore,
     clobbered  |-> <<>>,
     source     |-> source,
     requested  |-> targets,
     given      |-> capacity]

\* Course.apply_clobber up to its loop, r being the revert of the clobber
\* that is active: an error ends the call, else the call enters the loop
Begun(r, source, targets, capacity) ==
    /\ course' = r.course
    /\ orig' = orig
    /\ IF r.err # "none"
       THEN /\ last' = [op |-> "apply_clobber", err |-> r.err, flag |-> FALSE]
            /\ loop' = Idle
       ELSE IF ClobberChecks(r.course, source, targets) # ""
       THEN /\ last' = [op |-> "apply_clobber", err |-> "ValueError", flag |-> FALSE]
            /\ loop' = Idle
       ELSE /\ last' = [op |-> "apply_clobber", err |-> "running", flag |-> FALSE]
            /\ loop' = EnterLoop(r.course, source, targets, capacity)

\* course.apply_clobber(source, targets, capacity) is called
DoBeginClobber(source, targets, capacity) ==
    /\ loop.pc = "idle"
    /\ Begun(IF course.clobber_info # None THEN CourseRevertClobber(course) ELSE COk(course),
             source, targets, capacity)
    /\ UNCHANGED <<asgVars, profileVars, groupVars, idVars>>

\* the test of the while loop and of its break: the loop goes on
LoopGoesOn(l) ==
    /\ l.capacity # 0
    /\ ~(\A i \in DOMAIN l.z_targets : RLe(l.z_source, l.z_targets[i]))

\* a round that clobbers the target with the least z-score and leaves it in
\* the list
RoundWithoutPop(l) ==
    [l EXCEPT !.capacity = @ - 1,
              !.clobbered = Append(@, l.targets[ArgMin(l.z_targets)])]

\* the loop after one round: the target with the least z-score is popped
\* and its id appended to clobbered_components, the capacity is one less
Round(l) ==
    [l EXCEPT !.targets = RemoveAt(@, ArgMin(l.z_targets)),
              !.z_targets = RemoveAt(@, ArgMin(l.z_targets)),
              !.capacity = @ - 1,
              !.clobbered = Append(@, l.targets[ArgMin(l.z_targets)])]

\* one round of the while loop; the rounds that are counted are bounded
DoLoopRound ==
    /\ loop.pc = "loop"
    /\ LoopGoesOn(loop)
    /\ Len(loop.clobbered) < MaxRounds
    /\ course' = [course EXCEPT !.components[loop.targets[ArgMin(loop.z_targets)]].object =
                     AssignmentApplyClobber(@, loop.z_source).obj]
    /\ loop' = Round(loop)
    /\ UNCHANGED <<last, orig, asgVars, profileVars, groupVars, idVars>>

\* the loop ends and clobber_info is recorded: the call returns
DoLoopExit ==
    /\ loop.pc = "loop"
    /\ ~LoopGoesOn(loop)
    /\ course' = [course EXCEPT !.clobber_info =
                     <<[source |-> loop.source, targets |-> loop.clobbered]>>]
    /\ loop' = [loop EXCEPT !.pc = "idle"]
    /\ last' = [op |-> "apply_clobber", err |-> "none", flag |-> FALSE]
    /\ UNCHANGED <<orig, asgVars, profileVars, groupVars, idVars>>

NextLoop ==
    \/ \E in \in LoopSingleInputs, id \in IDs : DoAddTarget(in, id)
    \/ \E source \in IDs, targets \in TargetLists, capacity \in LoopCapacities :
          DoBeginClobber(source, targets, capacity)
    \/ DoLoopRound
    \/ DoLoopExit

\* a call that is in its loop goes on running
SpecLoop ==
    /\ Init
    /\ [][NextLoop]_vars
    /\ WF_vars(DoLoopRound)
    /\ WF_vars(DoLoopExit)

\* C30: every call of Course.apply_clobber that passes its checks, whatever
\* its capacity (0, above the number of targets, negative other than -1)
\* and its list of valid targets (the empty list too), leaves its loop and
\* returns, and at no time has it clobbered more targets than the list it
\* was given holds.
C30_Terminates ==
    /\ (loop.pc = "loop") ~> (loop.pc = "idle" /\ last.err = "none")
    /\ [](loop.pc = "loop" => Len(loop.clobbered) <= Len(loop.requested))

\* a call with the capacity -2 has returned after it clobbered each of its
\* two targets
C30_Witness ==
    /\ loop.pc = "idle"
    /\ last.op = "apply_clobber"
    /\ last.err = "none"
    /\ "given" \in DOMAIN loop
    /\ loop.given = -2
    /\ Len(loop.requested) = MaxTargets
    /\ Len(loop.clobbered) = MaxTargets
    /\ course.clobber_info = <<[source |-> loop.source, targets |-> loop.clobbered]>>

====
